---- MODULE Spec2Model ----
(***************************************************************************)
(* Model of the KYC validation engine, src/validators.py.                  *)
(*                                                                         *)
(* A Python str is a sequence of one-character strings, so that strip,     *)
(* split, upper, re.sub, re.search and strptime are computed character by  *)
(* character.  A Python value is a record [k, s]: k = "none" is None and   *)
(* k = "str" is the str s.  A datetime is a number of half days since      *)
(* 0001-01-01 00:00 minus two: midnight of the day with proleptic          *)
(* Gregorian ordinal n is 2*n, any later time of that day is 2*n + 1.      *)
(***************************************************************************)
EXTENDS Integers, Sequences, FiniteSets, TLC

\* ------------------------------------------------------------ characters
DigitChars == <<"0", "1", "2", "3", "4", "5", "6", "7", "8", "9">>
LowerChars == <<"a", "b", "c", "d", "e", "f", "g", "h", "i", "j", "k", "l", "m",
                "n", "o", "p", "q", "r", "s", "t", "u", "v", "w", "x", "y", "z">>
UpperChars == <<"A", "B", "C", "D", "E", "F", "G", "H", "I", "J", "K", "L", "M",
                "N", "O", "P", "Q", "R", "S", "T", "U", "V", "W", "X", "Y", "Z">>

Range(f) == {f[i] : i \in DOMAIN f}

IsDigit(c) == c \in Range(DigitChars)

\* str.isspace of one character: what str.strip(), str.split() and \s remove
IsSpace(c) == c \in {" ", "\t", "\n", "\r"}

DigitVal(c) == (CHOOSE i \in DOMAIN DigitChars : DigitChars[i] = c) - 1

\* str.upper() of one ASCII character
UpperChar(c) ==
    IF c \in Range(LowerChars)
    THEN UpperChars[CHOOSE i \in DOMAIN LowerChars : LowerChars[i] = c]
    ELSE c

\* str.lower() of one ASCII character (re.IGNORECASE compares case-folded)
LowerChar(c) ==
    IF c \in Range(UpperChars)
    THEN LowerChars[CHOOSE i \in DOMAIN UpperChars : UpperChars[i] = c]
    ELSE c

\* s.upper()
Upper(s) == [i \in DOMAIN s |-> UpperChar(s[i])]

\* the character at position i, "" past the end of the string
At(s, i) == IF i \in DOMAIN s THEN s[i] ELSE ""

\* s.strip()
Strip(s) ==
    LET keep == {i \in DOMAIN s : ~IsSpace(s[i])}
    IN  IF keep = {} THEN <<>>
        ELSE LET lo == CHOOSE i \in keep : \A j \in keep : i <= j
                 hi == CHOOSE i \in keep : \A j \in keep : j <= i
             IN  SubSeq(s, lo, hi)

\* len(s.split()): the number of maximal runs of non-whitespace characters
SplitCount(s) ==
    Cardinality({i \in DOMAIN s : ~IsSpace(s[i]) /\ (i = 1 \/ IsSpace(s[i - 1]))})

\* re.sub(r"[^A-Z0-9]", "", s)
IsUpperAlnum(c) == c \in Range(UpperChars) \/ IsDigit(c)
KeepAlnum(s) == SelectSeq(s, IsUpperAlnum)

\* ------------------------------------------------------------ dates
IsLeap(y) == (y % 4 = 0 /\ y % 100 # 0) \/ y % 400 = 0

DaysInMonth(y, m) ==
    IF m = 2 THEN (IF IsLeap(y) THEN 29 ELSE 28)
    ELSE IF m \in {4, 6, 9, 11} THEN 30 ELSE 31

RECURSIVE DaysBeforeMonth(_, _)
DaysBeforeMonth(y, m) ==
    IF m <= 1 THEN 0 ELSE DaysBeforeMonth(y, m - 1) + DaysInMonth(y, m - 1)

\* datetime.toordinal(): 0001-01-01 is day 1
Ordinal(y, m, d) ==
    LET p == y - 1
    IN  365 * p + (p \div 4) - (p \div 100) + (p \div 400) + DaysBeforeMonth(y, m) + d

\* midnight of an ordinal day, as a datetime
Midnight(ord) == 2 * ord

\* _strptime's regex for %m: 1[0-2]|0[1-9]|[1-9]; the number of characters
\* the first matching alternative takes at position i, 0 when none matches
MonthWidth(s, i) ==
    IF At(s, i) = "1" /\ At(s, i + 1) \in {"0", "1", "2"} THEN 2
    ELSE IF At(s, i) = "0" /\ IsDigit(At(s, i + 1)) /\ At(s, i + 1) # "0" THEN 2
    ELSE IF IsDigit(At(s, i)) /\ At(s, i) # "0" THEN 1
    ELSE 0

\* _strptime's regex for %d: 3[01]|[12]\d|0[1-9]|[1-9]| [1-9]
DayWidth(s, i) ==
    IF At(s, i) = "3" /\ At(s, i + 1) \in {"0", "1"} THEN 2
    ELSE IF At(s, i) \in {"1", "2"} /\ IsDigit(At(s, i + 1)) THEN 2
    ELSE IF At(s, i) = "0" /\ IsDigit(At(s, i + 1)) /\ At(s, i + 1) # "0" THEN 2
    ELSE IF IsDigit(At(s, i)) /\ At(s, i) # "0" THEN 1
    ELSE IF At(s, i) = " " /\ IsDigit(At(s, i + 1)) /\ At(s, i + 1) # "0" THEN 2
    ELSE 0

\* int() of the digits of s from position i, w characters wide (a blank counts 0)
RECURSIVE IntOf(_, _, _)
IntOf(s, i, w) ==
    IF w = 0 THEN 0
    ELSE 10 * IntOf(s, i, w - 1)
         + (IF IsDigit(s[i + w - 1]) THEN DigitVal(s[i + w - 1]) ELSE 0)

NoDate == [ok |-> FALSE, dt |-> 0]

\* datetime.strptime(s, "%Y-%m-%d") under try/except (ValueError, TypeError):
\* (True, dt) or (False, None)
ValidateDate(s) ==
    IF ~(\A i \in 1..4 : IsDigit(At(s, i))) \/ At(s, 5) # "-" THEN NoDate
    ELSE LET mw == MonthWidth(s, 6)
             dp == 6 + mw + 1
             dw == DayWidth(s, dp)
             y  == IntOf(s, 1, 4)
             m  == IntOf(s, 6, mw)
             d  == IntOf(s, dp, dw)
         IN  IF mw = 0 \/ At(s, 6 + mw) # "-" \/ dw = 0 THEN NoDate
             \* "unconverted data remains"
             ELSE IF Len(s) # dp + dw - 1 THEN NoDate
             \* datetime(): "year 0 is out of range", "day is out of range for month"
             ELSE IF y < 1 \/ d > DaysInMonth(y, m) THEN NoDate
             ELSE [ok |-> TRUE, dt |-> Midnight(Ordinal(y, m, d))]

\* ------------------------------------------------------------ regular expressions
\* the end of the run of digits (\d+, \d*) that starts at position i
RECURSIVE SkipDigits(_, _)
SkipDigits(s, i) == IF IsDigit(At(s, i)) THEN SkipDigits(s, i + 1) ELSE i

\* the end of the run of whitespace (\s*) that starts at position i
RECURSIVE SkipSpaces(_, _)
SkipSpaces(s, i) == IF i \in DOMAIN s /\ IsSpace(s[i]) THEN SkipSpaces(s, i + 1) ELSE i

\* the literal w (lower case) at position i, under re.IGNORECASE
Lit(s, i, w) == \A k \in DOMAIN w : LowerChar(At(s, i + k - 1)) = w[k]

\* the positions right after a non-empty run of digits: where \d+ can end
AfterDigits(s) == {j \in 2..(Len(s) + 1) : IsDigit(s[j - 1]) /\ ~IsDigit(At(s, j))}

\* re.search(r"\d+\'\s*\d+\"", s)
MatchFeetInches(s) ==
    \E j \in AfterDigits(s) :
        LET k == SkipSpaces(s, j + 1)
        IN  At(s, j) = "'" /\ SkipDigits(s, k) > k /\ At(s, SkipDigits(s, k)) = "\""

\* re.search(r"\d+\s*ft\s*\d*\s*in", s, re.IGNORECASE)
MatchFtIn(s) ==
    \E j \in AfterDigits(s) :
        LET k == SkipSpaces(s, j)
        IN  Lit(s, k, <<"f", "t">>)
            /\ Lit(s, SkipSpaces(s, SkipDigits(s, SkipSpaces(s, k + 2))), <<"i", "n">>)

\* re.search(r"\d+\s*cm", s, re.IGNORECASE)
MatchCm(s) == \E j \in AfterDigits(s) : Lit(s, SkipSpaces(s, j), <<"c", "m">>)

\* re.search(r"\d+\s*lbs?", s, re.IGNORECASE)
MatchLbs(s) == \E j \in AfterDigits(s) : Lit(s, SkipSpaces(s, j), <<"l", "b">>)

\* re.search(r"\d+\s*kg", s, re.IGNORECASE)
MatchKg(s) == \E j \in AfterDigits(s) : Lit(s, SkipSpaces(s, j), <<"k", "g">>)

\* ------------------------------------------------------------ values
\* Python values: None and str
None == [k |-> "none", s |-> <<>>]
Str(s) == [k |-> "str", s |-> s]

\* bool(v) of a Python value
Truthy(v) == v.k = "str" /\ v.s # <<>>

\* The FieldValue dict under one key of essential_fields or metadata:
\* the key is absent; {"confidence": c}; {"value": None}; {"value": s}
Absent == [k |-> "absent", s |-> <<>>]
NoValue == [k |-> "novalue", s |-> <<>>]
Null == [k |-> "null", s |-> <<>>]
Val(s) == [k |-> "value", s |-> s]

\* fields.get(key, {}).get("value", default)
GetValue(e, default) ==
    IF e.k \in {"absent", "novalue"} THEN default
    ELSE IF e.k = "null" THEN None ELSE Str(e.s)

\* fields.get(key, {}).get("value", "")
GetOrEmpty(e) == GetValue(e, Str(<<>>))

\* fields.get(key, {}).get("value")
GetOrNone(e) == GetValue(e, None)

\* bool(metadata.get(key)): None when the key is absent, else a non-empty dict
DictTruthy(e) == e.k # "absent"

EssentialKeys == {"full_name", "date_of_birth", "sex", "address"}
MetadataKeys == {"passport_number", "country_of_issue", "nationality", "date_of_issue",
                 "date_of_expiry", "dl_number", "height", "weight", "id_type", "id_number"}

\* the default {} of extraction_result.get("essential_fields", {}) and of
\* extraction_result.get("metadata", {})
EmptyEssential == [f \in EssentialKeys |-> Absent]
EmptyMetadata == [f \in MetadataKeys |-> Absent]

VALID_COUNTRIES == {
    <<"U", "S", "A">>,
    <<"U", "S">>,
    <<"U", "N", "I", "T", "E", "D", " ", "S", "T", "A", "T", "E", "S">>,
    <<"U", "N", "I", "T", "E", "D", " ", "S", "T", "A", "T", "E", "S", " ", "O", "F", " ", "A", "M", "E", "R", "I", "C", "A">>,
    <<"U", "K">>,
    <<"G", "B">>,
    <<"U", "N", "I", "T", "E", "D", " ", "K", "I", "N", "G", "D", "O", "M">>,
    <<"G", "R", "E", "A", "T", " ", "B", "R", "I", "T", "A", "I", "N">>,
    <<"C", "A", "N", "A", "D", "A">>,
    <<"C", "A">>,
    <<"C", "A", "N">>,
    <<"A", "U", "S", "T", "R", "A", "L", "I", "A">>,
    <<"A", "U">>,
    <<"A", "U", "S">>,
    <<"I", "N", "D", "I", "A">>,
    <<"I", "N">>,
    <<"I", "N", "D">>,
    <<"C", "H", "I", "N", "A">>,
    <<"C", "N">>,
    <<"C", "H", "N">>,
    <<"J", "A", "P", "A", "N">>,
    <<"J", "P">>,
    <<"J", "P", "N">>,
    <<"G", "E", "R", "M", "A", "N", "Y">>,
    <<"D", "E">>,
    <<"D", "E", "U">>,
    <<"F", "R", "A", "N", "C", "E">>,
    <<"F", "R">>,
    <<"F", "R", "A">>,
    <<"I", "T", "A", "L", "Y">>,
    <<"I", "T">>,
    <<"I", "T", "A">>,
    <<"S", "P", "A", "I", "N">>,
    <<"E", "S">>,
    <<"E", "S", "P">>,
    <<"M", "E", "X", "I", "C", "O">>,
    <<"M", "X">>,
    <<"M", "E", "X">>,
    <<"B", "R", "A", "Z", "I", "L">>,
    <<"B", "R">>,
    <<"B", "R", "A">>,
    <<"R", "U", "S", "S", "I", "A">>,
    <<"R", "U">>,
    <<"R", "U", "S">>,
    <<"S", "O", "U", "T", "H", " ", "A", "F", "R", "I", "C", "A">>,
    <<"Z", "A">>,
    <<"Z", "A", "F">>}

\* ------------------------------------------------------------ ValidationResult
\* A message is its format string, the str arguments and the int arguments.
Msg(text, strs, nums) == [text |-> text, strs |-> strs, nums |-> nums]

\* ValidationResult(test_name, passed, message, severity); a test name is the
\* tuple of its dot-separated parts
ValidationResult(test_name, passed, message, severity) ==
    [test_name |-> test_name, passed |-> passed, message |-> message,
     severity |-> severity]

\* ValidationResult(test_name, passed, message): severity defaults to "error"
DefaultResult(test_name, passed, message) ==
    ValidationResult(test_name, passed, message, "error")

\* ValidationResult.to_dict
ToDict(r) ==
    [test |-> r.test_name, passed |-> r.passed, message |-> r.message,
     severity |-> r.severity]

\* int(a / b) for b > 0: truncation toward zero
TruncDiv(a, b) == IF a >= 0 THEN a \div b ELSE -((-a) \div b)

\* (now - dt).days of a timedelta: whole days, rounded down
DaysBetween(now, dt) == (now - dt) \div 2

\* ------------------------------------------------------------ essential fields
FullNameValue(ef) == GetOrEmpty(ef.full_name)

\* None.strip() raises AttributeError
FullNameRaises(ef) == FullNameValue(ef).k = "none"

FullName(ef) == Strip(FullNameValue(ef).s)

FullNamePresent(ef) ==
    IF FullName(ef) # <<>>
    THEN DefaultResult(<<"essential_fields", "full_name", "present">>, TRUE,
                       Msg("Full name is present: {}", <<FullName(ef)>>, <<>>))
    ELSE DefaultResult(<<"essential_fields", "full_name", "present">>, FALSE,
                       Msg("Full name is missing or empty", <<>>, <<>>))

\* mutant: an incomplete name is reported with the default severity
FullNameFormatError(ef) ==
    IF SplitCount(FullName(ef)) >= 2
    THEN DefaultResult(<<"essential_fields", "full_name", "format">>, TRUE,
                       Msg("Name has at least first and last name", <<>>, <<>>))
    ELSE DefaultResult(<<"essential_fields", "full_name", "format">>, FALSE,
                       Msg("Name may be incomplete - only {} part(s) found", <<>>,
                           <<SplitCount(FullName(ef))>>))

FullNameFormat(ef) ==
    IF SplitCount(FullName(ef)) >= 2
    THEN DefaultResult(<<"essential_fields", "full_name", "format">>, TRUE,
                       Msg("Name has at least first and last name", <<>>, <<>>))
    ELSE ValidationResult(<<"essential_fields", "full_name", "format">>, FALSE,
                          Msg("Name may be incomplete - only {} part(s) found", <<>>,
                              <<SplitCount(FullName(ef))>>),
                          "warning")

Dob(ef) == GetOrEmpty(ef.date_of_birth)

\* dob_valid, dob_date = self._validate_date(dob), when dob is truthy
DobDate(ef) == IF Truthy(Dob(ef)) THEN ValidateDate(Dob(ef).s) ELSE NoDate

DobFormat(ef) ==
    IF Truthy(Dob(ef))
    THEN IF DobDate(ef).ok
         THEN DefaultResult(<<"essential_fields", "date_of_birth", "format">>, TRUE,
                            Msg("Date of birth is in valid format: {}", <<Dob(ef).s>>, <<>>))
         ELSE DefaultResult(<<"essential_fields", "date_of_birth", "format">>, FALSE,
                            Msg("Date of birth format is invalid: {}", <<Dob(ef).s>>, <<>>))
    ELSE DefaultResult(<<"essential_fields", "date_of_birth", "present">>, FALSE,
                       Msg("Date of birth is missing", <<>>, <<>>))

\* dob_date < datetime.now()
DobPast(ef, now) ==
    IF DobDate(ef).dt < now
    THEN DefaultResult(<<"essential_fields", "date_of_birth", "past">>, TRUE,
                       Msg("Date of birth is in the past", <<>>, <<>>))
    ELSE DefaultResult(<<"essential_fields", "date_of_birth", "past">>, FALSE,
                       Msg("Date of birth is in the future - invalid", <<>>, <<>>))

\* mutant: the lower bound is 365 days rather than one year of 365.25 days
DobReasonableLoose(ef, now) ==
    LET days == DaysBetween(now, DobDate(ef).dt)
    IN  IF 365 <= days /\ 4 * days <= 150 * 1461
        THEN DefaultResult(<<"essential_fields", "date_of_birth", "reasonable">>, TRUE,
                           Msg("Age is reasonable: ~{} years", <<>>,
                               <<TruncDiv(4 * days, 1461)>>))
        ELSE DefaultResult(<<"essential_fields", "date_of_birth", "reasonable">>, FALSE,
                           Msg("Age seems unreasonable: ~{} years", <<>>,
                               <<TruncDiv(4 * days, 1461)>>))

\* mutant: there is no minimum age
DobReasonableNoMinimum(ef, now) ==
    LET days == DaysBetween(now, DobDate(ef).dt)
    IN  IF 4 * days <= 150 * 1461
        THEN DefaultResult(<<"essential_fields", "date_of_birth", "reasonable">>, TRUE,
                           Msg("Age is reasonable: ~{} years", <<>>,
                               <<TruncDiv(4 * days, 1461)>>))
        ELSE DefaultResult(<<"essential_fields", "date_of_birth", "reasonable">>, FALSE,
                           Msg("Age seems unreasonable: ~{} years", <<>>,
                               <<TruncDiv(4 * days, 1461)>>))

\* age = (datetime.now() - dob_date).days / 365.25; 1 <= age <= 150, in quarter days
DobReasonable(ef, now) ==
    LET days == DaysBetween(now, DobDate(ef).dt)
    IN  IF 1461 <= 4 * days /\ 4 * days <= 150 * 1461
        THEN DefaultResult(<<"essential_fields", "date_of_birth", "reasonable">>, TRUE,
                           Msg("Age is reasonable: ~{} years", <<>>,
                               <<TruncDiv(4 * days, 1461)>>))
        ELSE DefaultResult(<<"essential_fields", "date_of_birth", "reasonable">>, FALSE,
                           Msg("Age seems unreasonable: ~{} years", <<>>,
                               <<TruncDiv(4 * days, 1461)>>))

Sex(ef) == GetOrEmpty(ef.sex)

\* mutant: a missing sex is reported with a third severity
SexCheckInfo(ef) ==
    IF Sex(ef).k = "str" /\ Sex(ef).s \in {<<"M">>, <<"F">>, <<"X">>}
    THEN DefaultResult(<<"essential_fields", "sex", "valid">>, TRUE,
                       Msg("Sex is valid: {}", <<Sex(ef).s>>, <<>>))
    ELSE IF Truthy(Sex(ef))
    THEN ValidationResult(<<"essential_fields", "sex", "valid">>, FALSE,
                          Msg("Sex value is invalid: {} (expected M, F, or X)",
                              <<Sex(ef).s>>, <<>>),
                          "warning")
    ELSE ValidationResult(<<"essential_fields", "sex", "present">>, FALSE,
                          Msg("Sex is missing", <<>>, <<>>), "info")

\* mutant: an unexpected sex value is reported with the default severity
SexCheckError(ef) ==
    IF Sex(ef).k = "str" /\ Sex(ef).s \in {<<"M">>, <<"F">>, <<"X">>}
    THEN DefaultResult(<<"essential_fields", "sex", "valid">>, TRUE,
                       Msg("Sex is valid: {}", <<Sex(ef).s>>, <<>>))
    ELSE IF Truthy(Sex(ef))
    THEN DefaultResult(<<"essential_fields", "sex", "valid">>, FALSE,
                       Msg("Sex value is invalid: {} (expected M, F, or X)",
                           <<Sex(ef).s>>, <<>>))
    ELSE ValidationResult(<<"essential_fields", "sex", "present">>, FALSE,
                          Msg("Sex is missing", <<>>, <<>>), "warning")

SexCheck(ef) ==
    IF Sex(ef).k = "str" /\ Sex(ef).s \in {<<"M">>, <<"F">>, <<"X">>}
    THEN DefaultResult(<<"essential_fields", "sex", "valid">>, TRUE,
                       Msg("Sex is valid: {}", <<Sex(ef).s>>, <<>>))
    ELSE IF Truthy(Sex(ef))
    THEN ValidationResult(<<"essential_fields", "sex", "valid">>, FALSE,
                          Msg("Sex value is invalid: {} (expected M, F, or X)",
                              <<Sex(ef).s>>, <<>>),
                          "warning")
    ELSE ValidationResult(<<"essential_fields", "sex", "present">>, FALSE,
                          Msg("Sex is missing", <<>>, <<>>), "warning")

\* ------------------------------------------------------------ passport
PassportNumber(md) == GetOrEmpty(md.passport_number)

\* mutant: presence is tested on the cleaned number
PassportNumberCheckCleaned(md) ==
    LET clean_num == KeepAlnum(Upper(PassportNumber(md).s))
    IN  IF Truthy(PassportNumber(md)) /\ clean_num # <<>>
        THEN IF 6 <= Len(clean_num) /\ Len(clean_num) <= 15
             THEN DefaultResult(<<"passport", "passport_number", "length">>, TRUE,
                                Msg("Passport number length is valid: {} characters",
                                    <<>>, <<Len(clean_num)>>))
             ELSE ValidationResult(<<"passport", "passport_number", "length">>, FALSE,
                                   Msg("Passport number length is unusual: {} characters (expected 6-15)",
                                       <<>>, <<Len(clean_num)>>),
                                   "warning")
        ELSE DefaultResult(<<"passport", "passport_number", "present">>, FALSE,
                           Msg("Passport number is missing", <<>>, <<>>))

PassportNumberCheck(md) ==
    LET clean_num == KeepAlnum(Upper(PassportNumber(md).s))
    IN  IF Truthy(PassportNumber(md))
        THEN IF 6 <= Len(clean_num) /\ Len(clean_num) <= 15
             THEN DefaultResult(<<"passport", "passport_number", "length">>, TRUE,
                                Msg("Passport number length is valid: {} characters",
                                    <<>>, <<Len(clean_num)>>))
             ELSE ValidationResult(<<"passport", "passport_number", "length">>, FALSE,
                                   Msg("Passport number length is unusual: {} characters (expected 6-15)",
                                       <<>>, <<Len(clean_num)>>),
                                   "warning")
        ELSE DefaultResult(<<"passport", "passport_number", "present">>, FALSE,
                           Msg("Passport number is missing", <<>>, <<>>))

Country(md) == GetOrEmpty(md.country_of_issue)

\* mutant: a recognized country is reported as a passed advisory
CountryCheckAdvisory(md) ==
    IF Truthy(Country(md))
    THEN IF Upper(Country(md).s) \in VALID_COUNTRIES
         THEN ValidationResult(<<"passport", "country_of_issue", "valid">>, TRUE,
                               Msg("Country of issue is valid: {}", <<Country(md).s>>, <<>>),
                               "warning")
         ELSE ValidationResult(<<"passport", "country_of_issue", "valid">>, FALSE,
                               Msg("Country of issue may be invalid or unrecognized: {}",
                                   <<Country(md).s>>, <<>>),
                               "warning")
    ELSE DefaultResult(<<"passport", "country_of_issue", "present">>, FALSE,
                       Msg("Country of issue is missing", <<>>, <<>>))

CountryCheck(md) ==
    IF Truthy(Country(md))
    THEN IF Upper(Country(md).s) \in VALID_COUNTRIES
         THEN DefaultResult(<<"passport", "country_of_issue", "valid">>, TRUE,
                            Msg("Country of issue is valid: {}", <<Country(md).s>>, <<>>))
         ELSE ValidationResult(<<"passport", "country_of_issue", "valid">>, FALSE,
                               Msg("Country of issue may be invalid or unrecognized: {}",
                                   <<Country(md).s>>, <<>>),
                               "warning")
    ELSE DefaultResult(<<"passport", "country_of_issue", "present">>, FALSE,
                       Msg("Country of issue is missing", <<>>, <<>>))

Nationality(md) == GetOrEmpty(md.nationality)

\* emitted only when nationality is truthy
NationalityCheck(md) ==
    IF Upper(Nationality(md).s) \in VALID_COUNTRIES
    THEN DefaultResult(<<"passport", "nationality", "valid">>, TRUE,
                       Msg("Nationality is valid: {}", <<Nationality(md).s>>, <<>>))
    ELSE ValidationResult(<<"passport", "nationality", "valid">>, FALSE,
                          Msg("Nationality may be invalid or unrecognized: {}",
                              <<Nationality(md).s>>, <<>>),
                          "warning")

\* ------------------------------------------------------------ driver's license
DlNumber(md) == GetOrEmpty(md.dl_number)

DlNumberCheck(md) ==
    LET clean_num == KeepAlnum(Upper(DlNumber(md).s))
    IN  IF Truthy(DlNumber(md))
        THEN IF 5 <= Len(clean_num) /\ Len(clean_num) <= 20
             THEN DefaultResult(<<"license", "dl_number", "length">>, TRUE,
                                Msg("License number length is valid: {} characters",
                                    <<>>, <<Len(clean_num)>>))
             ELSE ValidationResult(<<"license", "dl_number", "length">>, FALSE,
                                   Msg("License number length is unusual: {} characters",
                                       <<>>, <<Len(clean_num)>>),
                                   "warning")
        ELSE DefaultResult(<<"license", "dl_number", "present">>, FALSE,
                           Msg("License number is missing", <<>>, <<>>))

Address(ef) == GetOrEmpty(ef.address)

\* mutant: the length is taken before trimming
AddressCheckRaw(ef) ==
    IF Truthy(Address(ef)) /\ Len(Address(ef).s) > 5
    THEN DefaultResult(<<"license", "address", "present">>, TRUE,
                       Msg("Address is present and appears complete", <<>>, <<>>))
    ELSE DefaultResult(<<"license", "address", "present">>, FALSE,
                       Msg("Address is missing or incomplete", <<>>, <<>>))

AddressCheck(ef) ==
    IF Truthy(Address(ef)) /\ Len(Strip(Address(ef).s)) > 5
    THEN DefaultResult(<<"license", "address", "present">>, TRUE,
                       Msg("Address is present and appears complete", <<>>, <<>>))
    ELSE DefaultResult(<<"license", "address", "present">>, FALSE,
                       Msg("Address is missing or incomplete", <<>>, <<>>))

Height(md) == GetOrEmpty(md.height)

\* emitted only when height is truthy
HeightCheck(md) ==
    IF MatchFeetInches(Height(md).s) \/ MatchFtIn(Height(md).s) \/ MatchCm(Height(md).s)
    THEN DefaultResult(<<"license", "height", "format">>, TRUE,
                       Msg("Height format is valid: {}", <<Height(md).s>>, <<>>))
    ELSE ValidationResult(<<"license", "height", "format">>, FALSE,
                          Msg("Height format may be invalid: {}", <<Height(md).s>>, <<>>),
                          "warning")

Weight(md) == GetOrEmpty(md.weight)

\* emitted only when weight is truthy
WeightCheck(md) ==
    IF MatchLbs(Weight(md).s) \/ MatchKg(Weight(md).s)
    THEN DefaultResult(<<"license", "weight", "format">>, TRUE,
                       Msg("Weight format is valid: {}", <<Weight(md).s>>, <<>>))
    ELSE ValidationResult(<<"license", "weight", "format">>, FALSE,
                          Msg("Weight format may be invalid: {}", <<Weight(md).s>>, <<>>),
                          "warning")

\* ------------------------------------------------------------ other id
\* mutant: any key of the metadata map counts, whatever its value
MetadataPresentCheckKeys(md) ==
    IF \E f \in DOMAIN md : md[f].k # "absent"
    THEN DefaultResult(<<"other_id", "metadata", "present">>, TRUE,
                       Msg("Some metadata fields were successfully extracted", <<>>, <<>>))
    ELSE ValidationResult(<<"other_id", "metadata", "present">>, FALSE,
                          Msg("No metadata could be extracted from this ID", <<>>, <<>>),
                          "warning")

\* metadata and any(v.get("value") for v in metadata.values() if isinstance(v, dict))
MetadataPresentCheck(md) ==
    IF \E f \in DOMAIN md : md[f].k = "value" /\ md[f].s # <<>>
    THEN DefaultResult(<<"other_id", "metadata", "present">>, TRUE,
                       Msg("Some metadata fields were successfully extracted", <<>>, <<>>))
    ELSE ValidationResult(<<"other_id", "metadata", "present">>, FALSE,
                          Msg("No metadata could be extracted from this ID", <<>>, <<>>),
                          "warning")

IdType(md) == GetOrEmpty(md.id_type)

IdTypeCheck(md) ==
    IF Truthy(IdType(md))
    THEN DefaultResult(<<"other_id", "id_type", "identified">>, TRUE,
                       Msg("ID type was identified: {}", <<IdType(md).s>>, <<>>))
    ELSE ValidationResult(<<"other_id", "id_type", "identified">>, FALSE,
                          Msg("ID type could not be identified", <<>>, <<>>), "warning")

\* if metadata.get("date_of_issue") or metadata.get("date_of_expiry")
OtherIdHasDates(md) == DictTruthy(md.date_of_issue) \/ DictTruthy(md.date_of_expiry)

\* ------------------------------------------------------------ document dates
\* the arguments of _validate_document_dates
IssueDate(md) == GetOrNone(md.date_of_issue)
ExpiryDate(md) == GetOrNone(md.date_of_expiry)
BirthDate(ef) == GetOrNone(ef.date_of_birth)

\* self._validate_date(d) if d else (False, None)
DateOf(v) == IF Truthy(v) THEN ValidateDate(v.s) ELSE NoDate

IssueFormat(md, doc_type) ==
    IF DateOf(IssueDate(md)).ok
    THEN DefaultResult(<<doc_type, "date_of_issue", "format">>, TRUE,
                       Msg("Date of issue is valid: {}", <<IssueDate(md).s>>, <<>>))
    ELSE DefaultResult(<<doc_type, "date_of_issue", "format">>, FALSE,
                       Msg("Date of issue format is invalid: {}", <<IssueDate(md).s>>, <<>>))

ExpiryFormat(md, doc_type) ==
    IF DateOf(ExpiryDate(md)).ok
    THEN DefaultResult(<<doc_type, "date_of_expiry", "format">>, TRUE,
                       Msg("Date of expiry is valid: {}", <<ExpiryDate(md).s>>, <<>>))
    ELSE DefaultResult(<<doc_type, "date_of_expiry", "format">>, FALSE,
                       Msg("Date of expiry format is invalid: {}", <<ExpiryDate(md).s>>, <<>>))

ExpiryAfterIssue(md, doc_type) ==
    IF DateOf(ExpiryDate(md)).dt > DateOf(IssueDate(md)).dt
    THEN DefaultResult(<<doc_type, "dates", "expiry_after_issue">>, TRUE,
                       Msg("Expiry date is after issue date", <<>>, <<>>))
    ELSE DefaultResult(<<doc_type, "dates", "expiry_after_issue">>, FALSE,
                       Msg("Expiry date ({}) is not after issue date ({})",
                           <<ExpiryDate(md).s, IssueDate(md).s>>, <<>>))

IssueAfterBirth(ef, md, doc_type) ==
    IF DateOf(IssueDate(md)).dt > DateOf(BirthDate(ef)).dt
    THEN DefaultResult(<<doc_type, "dates", "issue_after_birth">>, TRUE,
                       Msg("Issue date is after date of birth", <<>>, <<>>))
    ELSE DefaultResult(<<doc_type, "dates", "issue_after_birth">>, FALSE,
                       Msg("Issue date ({}) is before date of birth ({})",
                           <<IssueDate(md).s, BirthDate(ef).s>>, <<>>))

\* f"{validity_years:.1f}": the sign and the tenths of years, rounded to nearest
\* (days * 40 / 1461 is never half way between two integers)
Tenths(days) ==
    LET t == (80 * days + 1461) \div 2922
    IN  <<IF days < 0 THEN 1 ELSE 0, IF t < 0 THEN -t ELSE t>>

\* mutant: the validity check reuses the test name of the check above it
ValidityPeriodCopied(md, doc_type) ==
    LET days == DaysBetween(DateOf(ExpiryDate(md)).dt, DateOf(IssueDate(md)).dt)
    IN  ValidationResult(<<doc_type, "dates", "expiry_after_issue">>,
                         1461 <= 8 * days /\ 4 * days <= 20 * 1461,
                         Msg("Document validity period", <<>>, Tenths(days)), "warning")

\* mutant: the lower bound is 182 days rather than half a year of 365.25 days
ValidityPeriodHalfYear(md, doc_type) ==
    LET days == DaysBetween(DateOf(ExpiryDate(md)).dt, DateOf(IssueDate(md)).dt)
    IN  IF 182 <= days /\ 4 * days <= 20 * 1461
        THEN DefaultResult(<<doc_type, "dates", "validity_period">>, TRUE,
                           Msg("Document validity period is reasonable: ~{:.1f} years",
                               <<>>, Tenths(days)))
        ELSE ValidationResult(<<doc_type, "dates", "validity_period">>, FALSE,
                              Msg("Document validity period seems unusual: ~{:.1f} years",
                                  <<>>, Tenths(days)),
                              "warning")

\* mutant: the span is measured without its sign
ValidityPeriodAbs(md, doc_type) ==
    LET span == DaysBetween(DateOf(ExpiryDate(md)).dt, DateOf(IssueDate(md)).dt)
        days == IF span < 0 THEN -span ELSE span
    IN  IF 1461 <= 8 * days /\ 4 * days <= 20 * 1461
        THEN DefaultResult(<<doc_type, "dates", "validity_period">>, TRUE,
                           Msg("Document validity period is reasonable: ~{:.1f} years",
                               <<>>, Tenths(days)))
        ELSE ValidationResult(<<doc_type, "dates", "validity_period">>, FALSE,
                              Msg("Document validity period seems unusual: ~{:.1f} years",
                                  <<>>, Tenths(days)),
                              "warning")

\* validity_years = (expiry_dt - issue_dt).days / 365.25; 0.5 <= validity_years <= 20
ValidityPeriod(md, doc_type) ==
    LET days == DaysBetween(DateOf(ExpiryDate(md)).dt, DateOf(IssueDate(md)).dt)
    IN  IF 1461 <= 8 * days /\ 4 * days <= 20 * 1461
        THEN DefaultResult(<<doc_type, "dates", "validity_period">>, TRUE,
                           Msg("Document validity period is reasonable: ~{:.1f} years",
                               <<>>, Tenths(days)))
        ELSE ValidationResult(<<doc_type, "dates", "validity_period">>, FALSE,
                              Msg("Document validity period seems unusual: ~{:.1f} years",
                                  <<>>, Tenths(days)),
                              "warning")

\* mutant: a document expiring at this very instant counts as not expired
NotExpiredInclusive(md, doc_type, now) ==
    IF DateOf(ExpiryDate(md)).dt >= now
    THEN DefaultResult(<<doc_type, "dates", "not_expired">>, TRUE,
                       Msg("Document is not expired (expires {})", <<ExpiryDate(md).s>>, <<>>))
    ELSE ValidationResult(<<doc_type, "dates", "not_expired">>, FALSE,
                          Msg("Document has expired (expired on {})",
                              <<ExpiryDate(md).s>>, <<>>),
                          "warning")

\* expiry_dt > datetime.now()
NotExpired(md, doc_type, now) ==
    IF DateOf(ExpiryDate(md)).dt > now
    THEN DefaultResult(<<doc_type, "dates", "not_expired">>, TRUE,
                       Msg("Document is not expired (expires {})", <<ExpiryDate(md).s>>, <<>>))
    ELSE ValidationResult(<<doc_type, "dates", "not_expired">>, FALSE,
                          Msg("Document has expired (expired on {})",
                              <<ExpiryDate(md).s>>, <<>>),
                          "warning")

\* ------------------------------------------------------------ the checks of one run
EssentialChecks ==
    <<"full_name.present", "full_name.format", "date_of_birth", "date_of_birth.past",
      "date_of_birth.reasonable", "sex">>
PassportChecks == <<"passport_number", "country_of_issue", "nationality">>
LicenseChecks == <<"dl_number", "address", "height", "weight">>
OtherIdChecks == <<"metadata", "id_type">>
DateChecks ==
    <<"date_of_issue.format", "date_of_expiry.format", "expiry_after_issue",
      "issue_after_birth", "validity_period", "not_expired">>

\* mutant: every caller passes "passport" to _validate_document_dates
DatePrefixPassport(doc_type) == "passport"

\* the doc_type argument each caller passes to _validate_document_dates
DatePrefix(doc_type) ==
    IF doc_type = "passport" THEN "passport"
    ELSE IF doc_type = "drivers_license" THEN "license" ELSE "other_id"

\* validate's dispatch on doc_type: the checks in the order the code reaches them
ChecksOf(doc_type, md) ==
    IF doc_type = "passport" THEN EssentialChecks \o PassportChecks \o DateChecks
    ELSE IF doc_type = "drivers_license" THEN EssentialChecks \o LicenseChecks \o DateChecks
    ELSE IF doc_type = "other_id"
    THEN EssentialChecks \o OtherIdChecks \o (IF OtherIdHasDates(md) THEN DateChecks ELSE <<>>)
    ELSE EssentialChecks

\* mutant: a missing date_of_issue is reported as a format failure
ReachedIssueRequired(c, ef, md) ==
    CASE c = "full_name.format" -> FullName(ef) # <<>>
      [] c \in {"date_of_birth.past", "date_of_birth.reasonable"} -> DobDate(ef).ok
      [] c = "nationality" -> Truthy(Nationality(md))
      [] c = "height" -> Truthy(Height(md))
      [] c = "weight" -> Truthy(Weight(md))
      [] c = "date_of_issue.format" -> TRUE
      [] c = "date_of_expiry.format" -> Truthy(ExpiryDate(md))
      [] c \in {"expiry_after_issue", "validity_period"} ->
            DateOf(IssueDate(md)).ok /\ DateOf(ExpiryDate(md)).ok
      [] c = "issue_after_birth" -> DateOf(IssueDate(md)).ok /\ DateOf(BirthDate(ef)).ok
      [] c = "not_expired" -> DateOf(ExpiryDate(md)).ok
      [] OTHER -> TRUE

\* mutant: nothing is reported about a missing sex
ReachedSexOptional(c, ef, md) ==
    CASE c = "full_name.format" -> FullName(ef) # <<>>
      [] c \in {"date_of_birth.past", "date_of_birth.reasonable"} -> DobDate(ef).ok
      [] c = "nationality" -> Truthy(Nationality(md))
      [] c = "sex" -> Truthy(Sex(ef))
      [] c = "height" -> Truthy(Height(md))
      [] c = "weight" -> Truthy(Weight(md))
      [] c = "date_of_issue.format" -> Truthy(IssueDate(md))
      [] c = "date_of_expiry.format" -> Truthy(ExpiryDate(md))
      [] c \in {"expiry_after_issue", "validity_period"} ->
            DateOf(IssueDate(md)).ok /\ DateOf(ExpiryDate(md)).ok
      [] c = "issue_after_birth" -> DateOf(IssueDate(md)).ok /\ DateOf(BirthDate(ef)).ok
      [] c = "not_expired" -> DateOf(ExpiryDate(md)).ok
      [] OTHER -> TRUE

\* the condition under which the code reaches the _add_result call of check c
Reached(c, ef, md) ==
    CASE c = "full_name.format" -> FullName(ef) # <<>>
      [] c \in {"date_of_birth.past", "date_of_birth.reasonable"} -> DobDate(ef).ok
      [] c = "nationality" -> Truthy(Nationality(md))
      [] c = "height" -> Truthy(Height(md))
      [] c = "weight" -> Truthy(Weight(md))
      [] c = "date_of_issue.format" -> Truthy(IssueDate(md))
      [] c = "date_of_expiry.format" -> Truthy(ExpiryDate(md))
      [] c \in {"expiry_after_issue", "validity_period"} ->
            DateOf(IssueDate(md)).ok /\ DateOf(ExpiryDate(md)).ok
      [] c = "issue_after_birth" -> DateOf(IssueDate(md)).ok /\ DateOf(BirthDate(ef)).ok
      [] c = "not_expired" -> DateOf(ExpiryDate(md)).ok
      [] OTHER -> TRUE

\* the ValidationResult check c appends, the clock reading now when it runs
Outcome(c, ef, md, doc_type, now) ==
    CASE c = "full_name.present" -> FullNamePresent(ef)
      [] c = "full_name.format" -> FullNameFormat(ef)
      [] c = "date_of_birth" -> DobFormat(ef)
      [] c = "date_of_birth.past" -> DobPast(ef, now)
      [] c = "date_of_birth.reasonable" -> DobReasonable(ef, now)
      [] c = "sex" -> SexCheck(ef)
      [] c = "passport_number" -> PassportNumberCheck(md)
      [] c = "country_of_issue" -> CountryCheck(md)
      [] c = "nationality" -> NationalityCheck(md)
      [] c = "dl_number" -> DlNumberCheck(md)
      [] c = "address" -> AddressCheck(ef)
      [] c = "height" -> HeightCheck(md)
      [] c = "weight" -> WeightCheck(md)
      [] c = "metadata" -> MetadataPresentCheck(md)
      [] c = "id_type" -> IdTypeCheck(md)
      [] c = "date_of_issue.format" -> IssueFormat(md, DatePrefix(doc_type))
      [] c = "date_of_expiry.format" -> ExpiryFormat(md, DatePrefix(doc_type))
      [] c = "expiry_after_issue" -> ExpiryAfterIssue(md, DatePrefix(doc_type))
      [] c = "issue_after_birth" -> IssueAfterBirth(ef, md, DatePrefix(doc_type))
      [] c = "validity_period" -> ValidityPeriod(md, DatePrefix(doc_type))
      [] c = "not_expired" -> NotExpired(md, DatePrefix(doc_type), now)

\* the position of the next check after position i that the code reaches;
\* past the end when there is none
RECURSIVE NextCheck(_, _, _, _)
NextCheck(checks, i, ef, md) ==
    IF i + 1 > Len(checks) \/ Reached(checks[i + 1], ef, md) THEN i + 1
    ELSE NextCheck(checks, i + 1, ef, md)

\* ------------------------------------------------------------ inputs
\* An extraction_result dict: the top-level keys it has, and the value under
\* each (a filler under a key it does not have).
TopKeys == {"status", "document_type", "essential_fields", "metadata"}

Extraction(keys, status, doc_type, ef, md) ==
    [keys |-> keys,
     status |-> IF "status" \in keys THEN status ELSE "",
     document_type |-> IF "document_type" \in keys THEN doc_type ELSE "",
     essential_fields |-> IF "essential_fields" \in keys THEN ef ELSE EmptyEssential,
     metadata |-> IF "metadata" \in keys THEN md ELSE EmptyMetadata]

Essential(name, dob, sex, address) ==
    [full_name |-> name, date_of_birth |-> dob, sex |-> sex, address |-> address]

\* a metadata dict with the given keys set
Metadata(set) == [f \in MetadataKeys |-> IF f \in DOMAIN set THEN set[f] ELSE Absent]

\* the instant the model's clock starts at: 2024-06-01 00:00:00
Now0 == Midnight(Ordinal(2024, 6, 1))

\* how many half days the clock may advance
MaxTicks == 2

\* the callers that may share one DocumentValidator
NCallers == 2
Callers == 1..NCallers

GoodName == Val(<<"A", "l", " ", "B", "o">>)
GoodDob == Val(<<"1", "9", "9", "0", "-", "0", "5", "-", "1", "5">>)
GoodSex == Val(<<"M">>)
GoodEssential == Essential(GoodName, GoodDob, GoodSex, Absent)

NameEntries == {Absent, NoValue, Null, Val(<<>>), Val(<<" ", " ">>), Val(<<"A", "l">>), Val(<<" ", "A", "l", " ", "B", "o", " ">>)}

SexEntries == {Absent, Null, Val(<<>>), Val(<<"M">>), Val(<<"X">>), Val(<<"M", "a", "l", "e">>), Val(<<"m">>)}

\* unparseable, leniently parsed and strict dates; 2024-06-01 is the clock's first day
DobEntries ==
    {Absent, NoValue, Null, Val(<<>>), Val(<<"n", "/", "a">>), Val(<<"2", "0", "2", "0", "-", "1", "-", "5">>), Val(<<"2", "0", "2", "0", "-", "0", "1", "-", " ", "5">>),
     Val(<<"2", "0", "2", "0", "-", "0", "1", "-", "0", "5", "T">>), Val(<<" ", "2", "0", "2", "0", "-", "0", "1", "-", "0", "5">>), Val(<<"2", "0", "2", "3", "-", "0", "2", "-", "2", "9">>), Val(<<"0", "0", "0", "0", "-", "0", "1", "-", "0", "1">>),
     Val(<<"2", "0", "-", "0", "1", "-", "0", "5">>), Val(<<"2", "0", "2", "0", "-", "1", "3", "-", "0", "1">>), Val(<<"2", "0", "2", "0", "-", "0", "1", "-", "3", "2">>), Val(<<"2", "0", "2", "0", "/", "0", "1", "/", "0", "5">>),
     Val(<<"1", "9", "9", "0", "-", "0", "5", "-", "1", "5">>), Val(<<"2", "0", "2", "4", "-", "0", "2", "-", "2", "9">>), Val(<<"2", "0", "2", "4", "-", "0", "6", "-", "0", "1">>), Val(<<"2", "0", "2", "4", "-", "0", "6", "-", "0", "2">>),
     Val(<<"2", "0", "2", "3", "-", "0", "6", "-", "0", "2">>), Val(<<"2", "0", "2", "3", "-", "0", "6", "-", "0", "1">>), Val(<<"1", "8", "7", "4", "-", "0", "6", "-", "0", "1">>), Val(<<"1", "8", "7", "4", "-", "0", "5", "-", "3", "1">>)}

IssueEntries ==
    {Absent, Null, Val(<<>>), Val(<<"s", "o", "o", "n">>), Val(<<"2", "0", "2", "0", "-", "0", "1", "-", "0", "1">>), Val(<<"1", "9", "9", "0", "-", "0", "5", "-", "1", "5">>),
     Val(<<"2", "0", "2", "0", "-", "1", "-", "1">>)}

ExpiryEntries ==
    {Absent, Val(<<>>), Val(<<"n", "e", "v", "e", "r">>), Val(<<"2", "0", "1", "9", "-", "0", "1", "-", "0", "1">>), Val(<<"2", "0", "2", "0", "-", "0", "1", "-", "0", "1">>), Val(<<"2", "0", "2", "0", "-", "0", "7", "-", "0", "1">>),
     Val(<<"2", "0", "2", "0", "-", "0", "7", "-", "0", "2">>), Val(<<"2", "0", "4", "0", "-", "0", "1", "-", "0", "1">>), Val(<<"2", "0", "4", "0", "-", "0", "1", "-", "0", "2">>), Val(<<"2", "0", "2", "4", "-", "0", "6", "-", "0", "1">>),
     Val(<<"2", "0", "2", "4", "-", "0", "6", "-", "0", "2">>)}

UnknownTypeInputs ==
    {Extraction(TopKeys, "success", "visa", Essential(name, Absent, sex, Absent),
                EmptyMetadata) :
        name \in NameEntries, sex \in SexEntries}
    \cup {Extraction(TopKeys, "success", "visa",
                     Essential(GoodName, dob, GoodSex, Absent), EmptyMetadata) :
            dob \in DobEntries}
    \cup {Extraction(TopKeys \ {"document_type"}, "success", "", ef, EmptyMetadata) :
            ef \in {GoodEssential, EmptyEssential, Essential(Null, Null, Null, Null)}}
    \cup {Extraction(TopKeys, "success", "Passport", GoodEssential, EmptyMetadata)}

MissingMapInputs ==
    {Extraction(keys, "success", dt, GoodEssential, EmptyMetadata) :
        keys \in {{"status", "document_type"}, {"status", "document_type", "metadata"},
                  {"status", "document_type", "essential_fields"}, {"status"}},
        dt \in {"passport", "drivers_license", "other_id"}}

PassportInputs ==
    {Extraction(TopKeys, "success", "passport", GoodEssential,
                Metadata([passport_number |-> number, country_of_issue |-> country,
                          nationality |-> nationality])) :
        number \in {Absent, Null, Val(<<"A", "B", " ", "1", "2", "-", "3", "4", "-", "5", "6", "7">>), Val(<<"-", "-">>), Val(<<"a", "1", "b", "2", "c">>),
                    Val(<<"1", "2", "3", "4", "5", "6", "7", "8", "9", "0", "1", "2", "3", "4", "5", "6">>)},
        country \in {Absent, Val(<<"u", "s", "a">>), Val(<<"M", "a", "r", "s">>), Val(<<"U", "n", "i", "t", "e", "d", " ", "K", "i", "n", "g", "d", "o", "m">>)},
        nationality \in {Absent, Val(<<"i", "n">>), Val(<<"M", "a", "r", "s">>)}}

DateInputs ==
    {Extraction(TopKeys, "success", "passport",
                Essential(GoodName, dob, GoodSex, Absent),
                Metadata([passport_number |-> Val(<<"A", "B", "1", "2", "3", "4", "5", "6", "7">>),
                          country_of_issue |-> Val(<<"U", "S">>),
                          date_of_issue |-> issue, date_of_expiry |-> expiry])) :
        dob \in {GoodDob}, issue \in IssueEntries, expiry \in ExpiryEntries}
    \cup {Extraction(TopKeys, "success", "passport",
                     Essential(GoodName, dob, GoodSex, Absent),
                     Metadata([passport_number |-> Val(<<"A", "B", "1", "2", "3", "4", "5", "6", "7">>),
                               country_of_issue |-> Val(<<"U", "S">>),
                               date_of_issue |-> issue])) :
            dob \in {Absent, Val(<<"s", "o", "o", "n">>), Val(<<"2", "0", "2", "0", "-", "0", "1", "-", "0", "2">>)},
            issue \in {Val(<<"s", "o", "o", "n">>), Val(<<"2", "0", "2", "0", "-", "0", "1", "-", "0", "1">>), Val(<<"2", "0", "2", "0", "-", "0", "1", "-", "0", "2">>)}}
    \cup {Extraction(TopKeys, "success", "drivers_license", GoodEssential,
                     Metadata([dl_number |-> Val(<<"D", "1", "2", "3", "4", "5", "6", "7">>),
                               date_of_issue |-> issue, date_of_expiry |-> expiry])) :
            issue \in {Absent, Val(<<"s", "o", "o", "n">>), Val(<<"2", "0", "2", "0", "-", "0", "1", "-", "0", "1">>)},
            expiry \in {Absent, Val(<<"2", "0", "1", "9", "-", "0", "1", "-", "0", "1">>), Val(<<"2", "0", "2", "4", "-", "0", "6", "-", "0", "1">>), Val(<<"2", "0", "3", "0", "-", "0", "1", "-", "0", "1">>)}}

LicenseInputs ==
    {Extraction(TopKeys, "success", "drivers_license",
                Essential(GoodName, GoodDob, GoodSex, address),
                Metadata([dl_number |-> number])) :
        number \in {Absent, Val(<<"D", "1", "2", "3", "-", "4", "5", "6", "7">>), Val(<<"A", "1">>)},
        address \in {Absent, Null, Val(<<"1", "2", " ", "E", "l", "m">>), Val(<<" ", "1", " ", "E", "l", "m", " ">>), Val(<<"1", "2", "3", "4", "5">>)}}
    \cup {Extraction(TopKeys, "success", "drivers_license",
                     Essential(GoodName, GoodDob, GoodSex, Val(<<"1", "2", " ", "E", "l", "m", " ", "S", "t">>)),
                     Metadata([dl_number |-> Val(<<"D", "1", "2", "3", "4", "5", "6", "7">>), height |-> height,
                               weight |-> weight])) :
            height \in {Absent, Val(<<"5", "'", "1", "0", "\"">>), Val(<<"5", " ", "F", "T", " ", "1", "0", " ", "i", "n">>), Val(<<"1", "7", "0", "c", "m">>),
                        Val(<<"t", "a", "l", "l">>), Val(<<"5", " ", "f", "t">>)},
            weight \in {Absent, Val(<<"1", "5", "0", " ", "l", "b">>), Val(<<"7", "0", "K", "G">>), Val(<<"h", "e", "a", "v", "y">>)}}

OtherIdInputs ==
    {Extraction(TopKeys, "success", "other_id", GoodEssential,
                Metadata([id_type |-> type, id_number |-> number,
                          date_of_issue |-> issue, date_of_expiry |-> expiry])) :
        type \in {Absent, Val(<<>>), Val(<<"s", "t", "u", "d", "e", "n", "t">>)},
        number \in {Absent},
        issue \in {Absent, NoValue, Null, Val(<<>>), Val(<<"2", "0", "2", "0", "-", "0", "1", "-", "0", "1">>)},
        expiry \in {Absent, NoValue, Val(<<"2", "0", "3", "0", "-", "0", "1", "-", "0", "1">>)}}
    \cup {Extraction(TopKeys, "success", "other_id", GoodEssential,
                     Metadata([id_number |-> number])) :
            number \in {NoValue, Null, Val(<<>>), Val(<<"7", "7">>)}}

SkippedInputs ==
    {Extraction(keys, status, "passport", ef, EmptyMetadata) :
        keys \in {TopKeys, TopKeys \ {"status"}, {}},
        status \in {"invalid", "error", "Success"},
        ef \in {GoodEssential, Essential(Null, Null, Null, Null)}}

\* the inputs of the sequential specification
Inputs ==
    UnknownTypeInputs \cup MissingMapInputs \cup PassportInputs \cup DateInputs
    \cup LicenseInputs \cup OtherIdInputs \cup SkippedInputs

\* the inputs of the specification of two interleaved calls
SharedInputs ==
    {Extraction(TopKeys, "invalid", "passport", GoodEssential, EmptyMetadata),
     Extraction(TopKeys, "success", "visa",
                Essential(Val(<<"A", "l">>), Absent, GoodSex, Absent), EmptyMetadata),
     Extraction(TopKeys \ {"document_type"}, "success", "", EmptyEssential, EmptyMetadata),
     Extraction(TopKeys, "success", "other_id", Essential(Null, Absent, Absent, Absent),
                EmptyMetadata)}

\* ------------------------------------------------------------ state
VARIABLES
    results,  \* self.results of the one DocumentValidator instance
    now,      \* the wall clock, datetime.now()
    pc,       \* pc[t]: where caller t's validate call stands
    arg,      \* arg[t]: the extraction_result dict caller t passes
    given,    \* given[t]: arg[t] as it was when the call began
    began,    \* began[t]: the clock's reading when the call began
    loc,      \* loc[t]: the local variables of caller t's validate call
    fresh,    \* fresh[t]: self.results of a validator constructed for this call alone
    reused,   \* reused[t]: the instance held results of an earlier call when this one began
    report,   \* report[t]: what caller t's last validate call returned
    pipe      \* the extract_document_info call of the extractor that owns the validator

vars == <<results, now, pc, arg, given, began, loc, fresh, reused, report, pipe>>

NoLocals ==
    [doc_type |-> "", essential_fields |-> EmptyEssential, metadata |-> EmptyMetadata,
     checks |-> <<>>, ip |-> 0, passed_tests |-> 0, failed_tests |-> 0,
     errors |-> <<>>, warnings |-> <<>>, total_tests |-> 0]

NoInput == Extraction({}, "", "", EmptyEssential, EmptyMetadata)

NoReport == [returned |-> FALSE]

SkipReport ==
    [validation_run |-> FALSE,
     message |-> "Validation skipped - extraction was not successful"]

\* mutant: extraction_result.get("status", "success") != "success"
NotSuccessfulByDefault(x) == "status" \in x.keys /\ x.status # "success"

\* extraction_result.get("status") != "success"
NotSuccessful(x) == ~("status" \in x.keys /\ x.status = "success")

\* mutant: the buffer is not cleared at the start of a run
KeepResults(buffer) == buffer

\* self.results = []
ResetResults(buffer) == <<>>

\* mutant: the reads use dict.setdefault, which adds a missing key to the input
ReadInputSetdefault(x) ==
    [doc_type |-> x.document_type,
     essential_fields |-> x.essential_fields,
     metadata |-> x.metadata,
     arg |-> [x EXCEPT !.keys = @ \cup {"essential_fields", "metadata"}]]

\* doc_type, essential_fields and metadata as validate reads them with dict.get,
\* and the extraction_result dict after the three reads
ReadInput(x) ==
    [doc_type |-> x.document_type,
     essential_fields |-> x.essential_fields,
     metadata |-> x.metadata,
     arg |-> x]

\* sum(1 for r in self.results if r.passed)
CountPassed(buffer) == Cardinality({i \in DOMAIN buffer : buffer[i].passed})

\* mutant: only the failures of severity "error" are counted as failed
CountFailedErrors(buffer) ==
    Cardinality({i \in DOMAIN buffer : ~buffer[i].passed /\ buffer[i].severity = "error"})

\* sum(1 for r in self.results if not r.passed)
CountFailed(buffer) == Cardinality({i \in DOMAIN buffer : ~buffer[i].passed})

IsError(r) == ~r.passed /\ r.severity = "error"
IsWarning(r) == ~r.passed /\ r.severity = "warning"

\* [r for r in self.results if not r.passed and r.severity == "error"]
ErrorsOf(buffer) == SelectSeq(buffer, IsError)

\* [r for r in self.results if not r.passed and r.severity == "warning"]
WarningsOf(buffer) == SelectSeq(buffer, IsWarning)

\* [r.to_dict() for r in rs]
Dicts(rs) == [i \in DOMAIN rs |-> ToDict(rs[i])]

\* the dict validate returns, from its locals and self.results
BuildReport(l, buffer) ==
    [validation_run |-> TRUE,
     total_tests |-> l.total_tests,
     passed |-> l.passed_tests,
     failed |-> l.failed_tests,
     errors |-> Len(l.errors),
     warnings |-> Len(l.warnings),
     all_tests_passed |-> (l.failed_tests = 0),
     test_results |-> Dicts(buffer),
     error_details |-> Dicts(l.errors),
     warning_details |-> Dicts(l.warnings)]

\* ------------------------------------------------------------ the pipeline
\* what classify_document can return as document_type: the three types, "invalid"
\* (also its answer when the classification call fails), or any other string
ClassifiedTypes == {"passport", "drivers_license", "other_id", "invalid", "visa"}

\* the JSON an extract_*_info call returns: whether it has the essential_fields
\* key and the metadata key of its document type, and the values under them
ExtractionJson(has_ef, ef, has_md, md) ==
    [has_ef |-> has_ef, ef |-> ef, has_md |-> has_md, md |-> md]

ExtractionJsons ==
    {ExtractionJson(TRUE, GoodEssential, TRUE,
                    Metadata([passport_number |-> Val(<<"A", "B", "1", "2", "3", "4", "5", "6", "7">>),
                              country_of_issue |-> Val(<<"U", "S">>)])),
     ExtractionJson(TRUE, GoodEssential, FALSE, EmptyMetadata),
     ExtractionJson(FALSE, EmptyEssential, TRUE, EmptyMetadata),
     ExtractionJson(TRUE, Essential(Null, Absent, Absent, Absent), TRUE, EmptyMetadata),
     ExtractionJson(TRUE, Essential(GoodName, Null, GoodSex, Absent), TRUE, EmptyMetadata),
     ExtractionJson(TRUE, Essential(Val(<<"A", "l">>), Val(<<"2", "0", "2", "0", "-", "1", "-", "5">>), Val(<<"M", "a", "l", "e">>),
                                    Val(<<"1", "2", " ", "E", "l", "m", " ", "S", "t">>)),
                    TRUE,
                    Metadata([dl_number |-> Val(<<"D", "1", "2", "3", "4", "5", "6", "7">>),
                              date_of_issue |-> Val(<<"2", "0", "2", "0", "-", "0", "1", "-", "0", "1">>),
                              date_of_expiry |-> Val(<<"2", "0", "1", "9", "-", "0", "1", "-", "0", "1">>)]))}

\* mutant: the dispatch has no else branch
RaisesUnknownTypeNever(doc_type) == FALSE

\* the else branch of the dispatch: raise ValueError("Unknown document type: ...")
RaisesUnknownType(doc_type) ==
    doc_type \notin {"passport", "drivers_license", "other_id"}

\* the lookup of the date of birth for the age raises AttributeError when
\* date_of_birth is null in the extraction
DobLookupRaises(e) == e.has_ef /\ e.ef.date_of_birth = Null

\* final_result as extract_document_info builds it
FinalResult(doc_type, e) ==
    Extraction(TopKeys, "success", doc_type,
               IF e.has_ef THEN e.ef ELSE EmptyEssential,
               IF e.has_md THEN e.md ELSE EmptyMetadata)

\* what extract_document_info returns: its status, whether it has the
\* _validation_results key, and the value under that key
PipelineResult(status, has_validation, validation) ==
    [status |-> status, has_validation |-> has_validation, validation |-> validation]

NoResult == PipelineResult("", FALSE, NoReport)
InvalidResult == PipelineResult("invalid", FALSE, NoReport)
ErrorResult == PipelineResult("error", FALSE, NoReport)

NoPipe ==
    [pc |-> "idle", run_validations |-> FALSE, doc_type |-> "", final |-> NoInput,
     out |-> NoResult]

Init ==
    /\ results = <<>>
    /\ now = Now0
    /\ pc = [t \in Callers |-> "idle"]
    /\ arg = [t \in Callers |-> NoInput]
    /\ given = [t \in Callers |-> NoInput]
    /\ began = [t \in Callers |-> Now0]
    /\ loc = [t \in Callers |-> NoLocals]
    /\ fresh = [t \in Callers |-> <<>>]
    /\ reused = [t \in Callers |-> FALSE]
    /\ report = [t \in Callers |-> NoReport]
    /\ pipe = NoPipe

\* ------------------------------------------------------------ actions
\* the clock advances
Tick ==
    /\ now < Now0 + MaxTicks
    /\ now' = now + 1
    /\ UNCHANGED <<results, pc, arg, given, began, loc, fresh, reused, report, pipe>>

\* validate(x) is called and runs to the end of its status guard
Call(t, x) ==
    /\ pc[t] \in {"idle", "done", "raised"}
    /\ results' = ResetResults(results)
    /\ fresh' = [fresh EXCEPT ![t] = <<>>]
    /\ reused' = [reused EXCEPT ![t] = (results # <<>>)]
    /\ given' = [given EXCEPT ![t] = x]
    /\ began' = [began EXCEPT ![t] = now]
    /\ IF NotSuccessful(x)
       THEN /\ arg' = [arg EXCEPT ![t] = x]
            /\ loc' = [loc EXCEPT ![t] = NoLocals]
            /\ report' = [report EXCEPT ![t] = SkipReport]
            /\ pc' = [pc EXCEPT ![t] = "done"]
       ELSE LET r == ReadInput(x)
            IN  /\ arg' = [arg EXCEPT ![t] = r.arg]
                /\ loc' = [loc EXCEPT ![t] =
                       [NoLocals EXCEPT !.doc_type = r.doc_type,
                                        !.essential_fields = r.essential_fields,
                                        !.metadata = r.metadata,
                                        !.checks = ChecksOf(r.doc_type, r.metadata),
                                        !.ip = 1]]
                /\ report' = [report EXCEPT ![t] = NoReport]
                /\ pc' = [pc EXCEPT ![t] = "check"]
    /\ UNCHANGED now

\* full_name's value is None: None.strip() raises AttributeError out of validate
Raise(t) ==
    /\ pc[t] = "check"
    /\ loc[t].checks[loc[t].ip] = "full_name.present"
    /\ FullNameRaises(loc[t].essential_fields)
    /\ pc' = [pc EXCEPT ![t] = "raised"]
    /\ loc' = [loc EXCEPT ![t] = NoLocals]
    /\ UNCHANGED <<results, now, arg, given, began, fresh, reused, report, pipe>>

\* the next check the code reaches runs and appends its result
Check(t) ==
    /\ pc[t] = "check"
    /\ LET l == loc[t]
           c == l.checks[l.ip]
           r == Outcome(c, l.essential_fields, l.metadata, l.doc_type, now)
           n == NextCheck(l.checks, l.ip, l.essential_fields, l.metadata)
       IN  /\ ~(c = "full_name.present" /\ FullNameRaises(l.essential_fields))
           /\ results' = Append(results, r)
           /\ fresh' = [fresh EXCEPT ![t] = Append(@, r)]
           /\ loc' = [loc EXCEPT ![t].ip = n]
           /\ pc' = [pc EXCEPT ![t] = IF n > Len(l.checks) THEN "passed" ELSE "check"]
    /\ UNCHANGED <<now, arg, given, began, reused, report, pipe>>

\* passed_tests = ...
Passed(t) ==
    /\ pc[t] = "passed"
    /\ loc' = [loc EXCEPT ![t].passed_tests = CountPassed(results)]
    /\ pc' = [pc EXCEPT ![t] = "failed"]
    /\ UNCHANGED <<results, now, arg, given, began, fresh, reused, report, pipe>>

\* failed_tests = ...
Failed(t) ==
    /\ pc[t] = "failed"
    /\ loc' = [loc EXCEPT ![t].failed_tests = CountFailed(results)]
    /\ pc' = [pc EXCEPT ![t] = "errors"]
    /\ UNCHANGED <<results, now, arg, given, began, fresh, reused, report, pipe>>

\* errors = ...
Errors(t) ==
    /\ pc[t] = "errors"
    /\ loc' = [loc EXCEPT ![t].errors = ErrorsOf(results)]
    /\ pc' = [pc EXCEPT ![t] = "warnings"]
    /\ UNCHANGED <<results, now, arg, given, began, fresh, reused, report, pipe>>

\* warnings = ...
Warnings(t) ==
    /\ pc[t] = "warnings"
    /\ loc' = [loc EXCEPT ![t].warnings = WarningsOf(results)]
    /\ pc' = [pc EXCEPT ![t] = "total"]
    /\ UNCHANGED <<results, now, arg, given, began, fresh, reused, report, pipe>>

\* "total_tests": len(self.results), the first read of the returned dict display
Total(t) ==
    /\ pc[t] = "total"
    /\ loc' = [loc EXCEPT ![t].total_tests = Len(results)]
    /\ pc' = [pc EXCEPT ![t] = "return"]
    /\ UNCHANGED <<results, now, arg, given, began, fresh, reused, report, pipe>>

\* the rest of the dict display is built and validate returns it
Return(t) ==
    /\ pc[t] = "return"
    /\ report' = [report EXCEPT ![t] = BuildReport(loc[t], results)]
    /\ loc' = [loc EXCEPT ![t] = NoLocals]
    /\ pc' = [pc EXCEPT ![t] = "done"]
    /\ UNCHANGED <<results, now, arg, given, began, fresh, reused, pipe>>

Run(t) ==
    \/ Raise(t)
    \/ Check(t)
    \/ Passed(t)
    \/ Failed(t)
    \/ Errors(t)
    \/ Warnings(t)
    \/ Total(t)
    \/ Return(t)

\* One caller: each call runs to its end before the next begins.
Next ==
    \/ Tick
    \/ \E x \in Inputs : Call(1, x) /\ UNCHANGED pipe
    \/ Run(1)

Spec == Init /\ [][Next]_vars

\* Callers share the instance; each makes one call, and the calls interleave
\* statement by statement.
SharedNext ==
    \/ \E t \in Callers : \E x \in SharedInputs :
           pc[t] = "idle" /\ Call(t, x) /\ UNCHANGED pipe
    \/ \E t \in Callers : Run(t)

SharedSpec == Init /\ [][SharedNext]_vars

\* ------------------------------------------------------------ pipeline actions
\* extract_document_info is called on the extractor, constructed with
\* run_validations = rv before its first call, and classify_document returns
\* document_type d.
Classify(d, rv) ==
    /\ \/ pipe.pc = "idle"
       \/ pipe.pc = "returned" /\ rv = pipe.run_validations
    /\ pipe' = [NoPipe EXCEPT !.pc = "classified", !.run_validations = rv, !.doc_type = d]
    /\ UNCHANGED <<results, now, pc, arg, given, began, loc, fresh, reused, report>>

\* doc_type == "invalid": the invalid result is returned
ReturnInvalid ==
    /\ pipe.pc = "classified"
    /\ pipe.doc_type = "invalid"
    /\ pipe' = [pipe EXCEPT !.pc = "returned", !.out = InvalidResult]
    /\ UNCHANGED <<results, now, pc, arg, given, began, loc, fresh, reused, report>>

\* the dispatch raises ValueError, or the extraction call or the lookup of the
\* date of birth raises: the except clause returns the error result
ExtractRaises ==
    /\ pipe.pc = "classified"
    /\ pipe.doc_type # "invalid"
    /\ pipe' = [pipe EXCEPT !.pc = "returned", !.out = ErrorResult]
    /\ UNCHANGED <<results, now, pc, arg, given, began, loc, fresh, reused, report>>

\* the extraction call returns e and final_result is built; without
\* validations it is returned as it is
Extract(e) ==
    /\ pipe.pc = "classified"
    /\ pipe.doc_type # "invalid"
    /\ ~RaisesUnknownType(pipe.doc_type)
    /\ ~DobLookupRaises(e)
    /\ pipe' = IF pipe.run_validations
               THEN [pipe EXCEPT !.pc = "built", !.final = FinalResult(pipe.doc_type, e)]
               ELSE [pipe EXCEPT !.pc = "returned",
                                 !.final = FinalResult(pipe.doc_type, e),
                                 !.out = PipelineResult("success", FALSE, NoReport)]
    /\ UNCHANGED <<results, now, pc, arg, given, began, loc, fresh, reused, report>>

\* self.validator.validate(final_result) is called
Validate ==
    /\ pipe.pc = "built"
    /\ Call(1, pipe.final)
    /\ pipe' = [pipe EXCEPT !.pc = "validating"]

\* validate runs inside the pipeline
Validating ==
    /\ pipe.pc = "validating"
    /\ Run(1)

\* validate has returned: final_result["_validation_results"] is set and
\* final_result is returned
Attach ==
    /\ pipe.pc = "validating"
    /\ pc[1] = "done"
    /\ pipe' = [pipe EXCEPT !.pc = "returned",
                            !.out = PipelineResult(pipe.final.status, TRUE, report[1])]
    /\ UNCHANGED <<results, now, pc, arg, given, began, loc, fresh, reused, report>>

\* validate has raised: the except clause returns the error result
Caught ==
    /\ pipe.pc = "validating"
    /\ pc[1] = "raised"
    /\ pipe' = [pipe EXCEPT !.pc = "returned", !.out = ErrorResult]
    /\ UNCHANGED <<results, now, pc, arg, given, began, loc, fresh, reused, report>>

\* Requests are served one after another, validate is called by the pipeline
\* only, and the clock advances meanwhile.
PipelineNext ==
    \/ \E d \in ClassifiedTypes : \E rv \in BOOLEAN : Classify(d, rv)
    \/ ReturnInvalid
    \/ ExtractRaises
    \/ \E e \in ExtractionJsons : Extract(e)
    \/ Validate
    \/ Validating
    \/ Attach
    \/ Caught
    \/ Tick

PipelineSpec == Init /\ [][PipelineNext]_vars

\* ------------------------------------------------------------ properties
\* the call of caller t has returned a report of a run (validation_run = true)
Ran(t) == pc[t] = "done" /\ report[t].validation_run

\* the input's status is missing or is not "success"
Skipped(x) == "status" \notin x.keys \/ x.status # "success"

\* the report a validator compiles from the buffer rs
ReportOf(rs) ==
    BuildReport([NoLocals EXCEPT !.passed_tests = CountPassed(rs),
                                 !.failed_tests = CountFailed(rs),
                                 !.errors = ErrorsOf(rs),
                                 !.warnings = WarningsOf(rs),
                                 !.total_tests = Len(rs)], rs)

\* C1: once validate has been called with an input whose status is missing or
\* is not "success", the call has returned, without raising, exactly the two
\* keys validation_run = false and message, and it has generated no outcome.
C1_SkipLaw ==
    \A t \in Callers :
        (pc[t] # "idle" /\ Skipped(given[t])) =>
            /\ pc[t] = "done"
            /\ DOMAIN report[t] = {"validation_run", "message"}
            /\ report[t].validation_run = FALSE
            /\ fresh[t] = <<>>

C1_Witness ==
    /\ pc[1] = "done"
    /\ "status" \notin given[1].keys
    /\ given[1].essential_fields = GoodEssential
    /\ report[1] = SkipReport

\* C2: in every report of a run, total_tests = passed + failed and
\* errors + warnings = failed.
C2_CountLaw ==
    \A t \in Callers :
        Ran(t) =>
            /\ report[t].total_tests = report[t].passed + report[t].failed
            /\ report[t].errors + report[t].warnings = report[t].failed

C2_Witness ==
    /\ Ran(1)
    /\ report[1].passed > 0
    /\ report[1].errors > 0
    /\ report[1].warnings > 0

\* C3: in every report of a run, each failed outcome has severity error or
\* warning, and all_tests_passed is true exactly when failed = 0, which is
\* exactly when no outcome of test_results failed.
C3_SeverityPartition ==
    \A t \in Callers :
        Ran(t) =>
            LET tr == report[t].test_results
            IN  /\ \A i \in DOMAIN tr :
                      ~tr[i].passed => tr[i].severity \in {"error", "warning"}
                /\ report[t].all_tests_passed = (report[t].failed = 0)
                /\ report[t].all_tests_passed = (\A i \in DOMAIN tr : tr[i].passed)

\* a run whose single failure is the advisory warning of an expired document
C3_Witness ==
    /\ Ran(1)
    /\ report[1].failed = 1
    /\ report[1].warnings = 1
    /\ report[1].warning_details[1].test = <<"passport", "dates", "not_expired">>
    /\ ~report[1].all_tests_passed

\* C4: on a reused instance called again and again, each report of a run is the
\* report a freshly constructed validator compiles for the same call, and each
\* skipped call returns the skip result; at every point of a call the outcome
\* buffer holds the outcomes of this call and none of an earlier one.
C4_ReuseEqualsFresh ==
    \A t \in Callers :
        /\ pc[t] = "done" =>
               report[t] = IF Skipped(given[t]) THEN SkipReport ELSE ReportOf(fresh[t])
        /\ pc[t] \notin {"idle", "done", "raised"} => results = fresh[t]

\* a run on an instance that held the outcomes of an earlier call
C4_Witness ==
    /\ Ran(1)
    /\ reused[1]
    /\ report[1].total_tests >= 3
    /\ report[1] = ReportOf(fresh[1])

\* C5: when the calls of two callers on one instance interleave, the
\* test_results of each report are exactly the outcomes generated for that
\* call's own input.
C5_Reentrant ==
    \A t \in Callers : Ran(t) => report[t].test_results = Dicts(fresh[t])

\* C6: validate never raises for an input with status success.
C6_NeverRaises == \A t \in Callers : pc[t] # "raised"

\* the document_type is missing or is none of the three known types
UnknownType(x) ==
    "document_type" \notin x.keys
    \/ x.document_type \notin {"passport", "drivers_license", "other_id"}

\* C7: once validate has run its first check on a status-success input of an
\* unknown document type, it goes on to return a report of a run in which every
\* test name starts with essential_fields; it never ends without a report.
C7_UnknownTypeCommonOnly ==
    \A t \in Callers :
        (~Skipped(given[t]) /\ UnknownType(given[t])) =>
            /\ pc[t] # "raised"
            /\ \A i \in DOMAIN fresh[t] : fresh[t][i].test_name[1] = "essential_fields"
            /\ pc[t] = "done" =>
                   /\ report[t].validation_run
                   /\ \A i \in DOMAIN report[t].test_results :
                          report[t].test_results[i].test[1] = "essential_fields"

\* C8: the extraction_result dict is, at every point of a call and after it,
\* what it was when the call began.
C8_InputUnchanged == \A t \in Callers : arg[t] = given[t]

\* a run has returned on an input that has no essential_fields and no metadata key
C8_Witness ==
    /\ Ran(1)
    /\ given[1].keys = {"status", "document_type"}
    /\ arg[1] = given[1]

\* s is exactly YYYY-MM-DD, zero-padded, and names a calendar date
IsStrictDate(s) ==
    /\ Len(s) = 10
    /\ \A i \in {1, 2, 3, 4, 6, 7, 9, 10} : IsDigit(s[i])
    /\ s[5] = "-" /\ s[8] = "-"
    /\ IntOf(s, 1, 4) >= 1
    /\ IntOf(s, 6, 2) \in 1..12
    /\ IntOf(s, 9, 2) \in 1..DaysInMonth(IntOf(s, 1, 4), IntOf(s, 6, 2))

\* C9: the date_of_birth.format outcome of a run passes if and only if the
\* date of birth is exactly a zero-padded YYYY-MM-DD calendar date.
C9_StrictDateGrammar ==
    \A t \in Callers : \A i \in DOMAIN fresh[t] :
        fresh[t][i].test_name = <<"essential_fields", "date_of_birth", "format">> =>
            (fresh[t][i].passed <=> IsStrictDate(given[t].essential_fields.date_of_birth.s))

\* C10: no test name appears twice in the test_results of a report.
C10_UniqueTestIds ==
    \A t \in Callers :
        Ran(t) =>
            \A i, j \in DOMAIN report[t].test_results :
                report[t].test_results[i].test = report[t].test_results[j].test => i = j

\* a run whose report holds every date check of a passport
C10_Witness ==
    /\ Ran(1)
    /\ report[1].total_tests >= 12
    /\ \E i \in DOMAIN report[1].test_results :
           report[1].test_results[i].test = <<"passport", "dates", "validity_period">>

\* the first instant of the day the instant n lies in
DayStart(n) == 2 * (n \div 2)

\* the instants of the day on which caller t's call began
InvocationDay(t) == {DayStart(began[t]), DayStart(began[t]) + 1}

\* the outcome r is one of the three checks that read the clock
IsTimed(r) == r.test_name[3] \in {"past", "reasonable", "not_expired"}

\* the outcomes the three clock-reading checks give for input x at the instant n
TimedAt(x, n) ==
    {DobPast(x.essential_fields, n), DobReasonable(x.essential_fields, n),
     NotExpired(x.metadata, DatePrefix(x.document_type), n)}

\* C11: there is one instant of the day on which the call began such that
\* every date_of_birth.past, date_of_birth.reasonable and dates.not_expired
\* outcome of the run is the outcome of its check at that instant; the clock
\* advancing during the run does not show in the outcomes.
C11_SameNow ==
    \A t \in Callers :
        \E n \in InvocationDay(t) :
            \A i \in DOMAIN fresh[t] :
                IsTimed(fresh[t][i]) => fresh[t][i] \in TimedAt(given[t], n)

\* the document type of input x is one of the three recognized types
KnownType(x) ==
    "document_type" \in x.keys
    /\ x.document_type \in {"passport", "drivers_license", "other_id"}

\* the test id prefix of a recognized document type
PrefixOf(doc_type) ==
    CASE doc_type = "passport" -> "passport"
      [] doc_type = "drivers_license" -> "license"
      [] doc_type = "other_id" -> "other_id"

\* C12: in a run on a recognized document type, every outcome generated, and
\* every test of the report, has a test id that starts with essential_fields
\* or with the prefix of that document type.
C12_OwnPrefixOnly ==
    \A t \in Callers :
        (~Skipped(given[t]) /\ KnownType(given[t])) =>
            /\ \A i \in DOMAIN fresh[t] :
                   fresh[t][i].test_name[1] \in
                       {"essential_fields", PrefixOf(given[t].document_type)}
            /\ Ran(t) =>
                   \A i \in DOMAIN report[t].test_results :
                       report[t].test_results[i].test[1] \in
                           {"essential_fields", PrefixOf(given[t].document_type)}

\* a driver's license run whose report holds essential, license and date checks
C12_Witness ==
    /\ Ran(1)
    /\ given[1].document_type = "drivers_license"
    /\ \E i, j, k \in DOMAIN report[1].test_results :
           /\ report[1].test_results[i].test[1] = "essential_fields"
           /\ report[1].test_results[j].test = <<"license", "dl_number", "length">>
           /\ report[1].test_results[k].test = <<"license", "dates", "not_expired">>

\* the positions of the tests of a report whose test id starts with a.b
TestsOf(t, a, b) ==
    {i \in DOMAIN report[t].test_results :
        report[t].test_results[i].test[1] = a /\ report[t].test_results[i].test[2] = b}

\* the text of a field entry, empty when the entry holds no string
TextOf(e) == IF e.k = "value" THEN e.s ELSE <<>>

\* C13: in every report of a run there is exactly one full_name.present test.
\* When the name is empty after trimming it failed with severity error and
\* there is no full_name.format test; otherwise it passed and there is exactly
\* one full_name.format test, passed iff the name has at least 2 tokens, else
\* failed with severity warning and a message giving the token count.
C13_FullNameCheck ==
    \A t \in Callers :
        Ran(t) =>
            LET tr == report[t].test_results
                name == Strip(TextOf(given[t].essential_fields.full_name))
                P == {i \in TestsOf(t, "essential_fields", "full_name") :
                        tr[i].test[3] = "present"}
                F == {i \in TestsOf(t, "essential_fields", "full_name") :
                        tr[i].test[3] = "format"}
            IN  /\ TestsOf(t, "essential_fields", "full_name") = P \cup F
                /\ Cardinality(P) = 1
                /\ IF name = <<>>
                   THEN /\ F = {}
                        /\ \A i \in P : ~tr[i].passed /\ tr[i].severity = "error"
                   ELSE /\ \A i \in P : tr[i].passed
                        /\ Cardinality(F) = 1
                        /\ \A i \in F :
                               /\ tr[i].passed <=> SplitCount(name) >= 2
                               /\ ~tr[i].passed =>
                                      /\ tr[i].severity = "warning"
                                      /\ tr[i].message =
                                             Msg("Name may be incomplete - only {} part(s) found",
                                                 <<>>, <<SplitCount(name)>>)

\* a run on the single-token name "Al": the format test is a warning naming 1 part
C13_Witness ==
    /\ Ran(1)
    /\ given[1].essential_fields.full_name = Val(<<"A", "l">>)
    /\ \E i \in DOMAIN report[1].test_results :
           /\ report[1].test_results[i].test = <<"essential_fields", "full_name", "format">>
           /\ ~report[1].test_results[i].passed
           /\ report[1].test_results[i].severity = "warning"
           /\ report[1].test_results[i].message.nums = <<1>>

\* C14: in every report of a run there is exactly one sex test.  For the
\* value M, F or X it is sex.valid, passed; for any other non-empty value it
\* is sex.valid, failed with severity warning; for an empty or absent value it
\* is sex.present, failed with severity warning.
C14_SexCheck ==
    \A t \in Callers :
        Ran(t) =>
            LET tr == report[t].test_results
                sex == given[t].essential_fields.sex
                S == TestsOf(t, "essential_fields", "sex")
            IN  /\ Cardinality(S) = 1
                /\ \A i \in S :
                       IF sex.k = "value" /\ sex.s \in {<<"M">>, <<"F">>, <<"X">>}
                       THEN tr[i].test[3] = "valid" /\ tr[i].passed
                       ELSE IF TextOf(sex) # <<>>
                       THEN /\ tr[i].test[3] = "valid"
                            /\ ~tr[i].passed
                            /\ tr[i].severity = "warning"
                       ELSE /\ tr[i].test[3] = "present"
                            /\ ~tr[i].passed
                            /\ tr[i].severity = "warning"

\* a run on sex = "Male": sex.valid is a warning
C14_Witness ==
    /\ Ran(1)
    /\ given[1].essential_fields.sex = Val(<<"M", "a", "l", "e">>)
    /\ \E i \in DOMAIN report[1].test_results :
           /\ report[1].test_results[i].test = <<"essential_fields", "sex", "valid">>
           /\ ~report[1].test_results[i].passed
           /\ report[1].test_results[i].severity = "warning"

\* the number of ASCII letters and digits of the string s
AlnumCount(s) ==
    Cardinality({i \in DOMAIN s :
        s[i] \in Range(DigitChars) \cup Range(LowerChars) \cup Range(UpperChars)})

\* C15: in every report of a passport run there is exactly one
\* passport_number test.  For an empty or absent number it is
\* passport_number.present, failed with severity error; for a non-empty one it
\* is passport_number.length, reporting the count of the number's letters and
\* digits, passed iff that count is in [6,15] and else failed with severity
\* warning.
C15_PassportNumber ==
    \A t \in Callers :
        (Ran(t) /\ KnownType(given[t]) /\ given[t].document_type = "passport") =>
            LET tr == report[t].test_results
                number == TextOf(given[t].metadata.passport_number)
                N == TestsOf(t, "passport", "passport_number")
            IN  /\ Cardinality(N) = 1
                /\ \A i \in N :
                       IF number = <<>>
                       THEN /\ tr[i].test[3] = "present"
                            /\ ~tr[i].passed
                            /\ tr[i].severity = "error"
                       ELSE /\ tr[i].test[3] = "length"
                            /\ tr[i].message.nums = <<AlnumCount(number)>>
                            /\ tr[i].passed <=>
                                   (6 <= AlnumCount(number) /\ AlnumCount(number) <= 15)
                            /\ ~tr[i].passed => tr[i].severity = "warning"

\* a passport run on the number "--": a length warning with observed length 0
C15_Witness ==
    /\ Ran(1)
    /\ given[1].document_type = "passport"
    /\ given[1].metadata.passport_number = Val(<<"-", "-">>)
    /\ \E i \in DOMAIN report[1].test_results :
           /\ report[1].test_results[i].test = <<"passport", "passport_number", "length">>
           /\ ~report[1].test_results[i].passed
           /\ report[1].test_results[i].severity = "warning"
           /\ report[1].test_results[i].message.nums = <<0>>

\* the field entry holds a string of the strict date grammar
StrictlyParses(e) == e.k = "value" /\ IsStrictDate(e.s)

\* C16: in every report of a run on a recognized document type, when
\* date_of_issue and date_of_expiry are both dates of the strict grammar there
\* is exactly one dates.expiry_after_issue test, passed iff expiry is strictly
\* after issue and else failed with severity error; when either is absent or
\* is not a date of the strict grammar there is no such test.
C16_ExpiryAfterIssue ==
    \A t \in Callers :
        (Ran(t) /\ KnownType(given[t])) =>
            LET tr == report[t].test_results
                issue == given[t].metadata.date_of_issue
                expiry == given[t].metadata.date_of_expiry
                E == {i \in TestsOf(t, PrefixOf(given[t].document_type), "dates") :
                        tr[i].test[3] = "expiry_after_issue"}
            IN  IF StrictlyParses(issue) /\ StrictlyParses(expiry)
                THEN /\ Cardinality(E) = 1
                     /\ \A i \in E :
                            /\ tr[i].passed <=>
                                   ValidateDate(expiry.s).dt > ValidateDate(issue.s).dt
                            /\ ~tr[i].passed => tr[i].severity = "error"
                ELSE E = {}

\* C17: in every report of an other_id run there is exactly one
\* other_id.metadata.present test, passed iff some metadata field has a
\* non-empty value and else failed with severity warning; with an empty
\* metadata map the other_id tests of the report are exactly metadata.present
\* and id_type.identified, both failed with severity warning.
C17_OtherIdMetadata ==
    \A t \in Callers :
        (Ran(t) /\ KnownType(given[t]) /\ given[t].document_type = "other_id") =>
            LET tr == report[t].test_results
                md == given[t].metadata
                M == TestsOf(t, "other_id", "metadata")
                O == {i \in DOMAIN tr : tr[i].test[1] = "other_id"}
            IN  /\ Cardinality(M) = 1
                /\ \A i \in M :
                       /\ tr[i].test[3] = "present"
                       /\ tr[i].passed <=> (\E f \in MetadataKeys : TextOf(md[f]) # <<>>)
                       /\ ~tr[i].passed => tr[i].severity = "warning"
                /\ md = EmptyMetadata =>
                       /\ {tr[i].test : i \in O} =
                              {<<"other_id", "metadata", "present">>,
                               <<"other_id", "id_type", "identified">>}
                       /\ Cardinality(O) = 2
                       /\ \A i \in O : ~tr[i].passed /\ tr[i].severity = "warning"

\* an other_id run on an empty metadata map
C17_Witness ==
    /\ Ran(1)
    /\ given[1].document_type = "other_id"
    /\ given[1].metadata = EmptyMetadata
    /\ report[1].warnings >= 2
    /\ \E i \in DOMAIN report[1].test_results :
           /\ report[1].test_results[i].test = <<"other_id", "metadata", "present">>
           /\ ~report[1].test_results[i].passed

\* the test of a report is one of the date_of_birth tests
IsDobTest(d) == d.test[1] = "essential_fields" /\ d.test[2] = "date_of_birth"

\* C18: in every report of a run, the date_of_birth tests are, in order:
\* present (failed, error) alone for an empty or absent date of birth; format
\* (failed, error) alone for a non-empty one that is not a date of the strict
\* grammar; format (passed), past, reasonable for a date of the strict
\* grammar.  No past or reasonable test appears unless format passed.
C18_DobChain ==
    \A t \in Callers :
        Ran(t) =>
            LET dob == given[t].essential_fields.date_of_birth
                ds == SelectSeq(report[t].test_results, IsDobTest)
            IN  /\ IF TextOf(dob) = <<>>
                   THEN /\ Len(ds) = 1
                        /\ ds[1].test[3] = "present"
                        /\ ~ds[1].passed /\ ds[1].severity = "error"
                   ELSE IF ~IsStrictDate(dob.s)
                   THEN /\ Len(ds) = 1
                        /\ ds[1].test[3] = "format"
                        /\ ~ds[1].passed /\ ds[1].severity = "error"
                   ELSE /\ Len(ds) = 3
                        /\ ds[1].test[3] = "format" /\ ds[1].passed
                        /\ ds[2].test[3] = "past"
                        /\ ds[3].test[3] = "reasonable"
                /\ \A i \in DOMAIN ds :
                       ds[i].test[3] \in {"past", "reasonable"} =>
                           \E j \in 1..(i - 1) : ds[j].test[3] = "format" /\ ds[j].passed

\* C19: the date_of_birth.past outcome of a date of birth of the strict grammar
\* passes iff the date of birth is before the date the clock showed during the
\* call, and otherwise fails with severity error; a date of birth equal to that
\* date fails.
C19_DobPast ==
    \A t \in Callers : \A i \in DOMAIN fresh[t] :
        (/\ fresh[t][i].test_name = <<"essential_fields", "date_of_birth", "past">>
         /\ StrictlyParses(given[t].essential_fields.date_of_birth)) =>
            \E n \in began[t]..now :
                /\ fresh[t][i].passed <=>
                       ValidateDate(given[t].essential_fields.date_of_birth.s).dt
                           < DayStart(n)
                /\ ~fresh[t][i].passed => fresh[t][i].severity = "error"

\* C20: the date_of_birth.reasonable outcome passes iff the whole days between
\* the clock's reading and the date of birth satisfy 1461 <= 4*days <= 219150,
\* that is 366 <= days <= 54787, and otherwise fails with severity error.
C20_DobReasonable ==
    \A t \in Callers : \A i \in DOMAIN fresh[t] :
        fresh[t][i].test_name = <<"essential_fields", "date_of_birth", "reasonable">> =>
            \E n \in began[t]..now :
                LET days ==
                        (n - ValidateDate(given[t].essential_fields.date_of_birth.s).dt)
                            \div 2
                IN  /\ fresh[t][i].passed <=> (1461 <= 4 * days /\ 4 * days <= 219150)
                    /\ fresh[t][i].passed <=> (366 <= days /\ days <= 54787)
                    /\ ~fresh[t][i].passed => fresh[t][i].severity = "error"

\* a run, the clock standing still, on a person born exactly 365 days before:
\* the check fails
C20_Witness ==
    /\ Ran(1)
    /\ now = began[1]
    /\ given[1].essential_fields.date_of_birth = Val(<<"2", "0", "2", "3", "-", "0", "6", "-", "0", "2">>)
    /\ DayStart(now) - ValidateDate(<<"2", "0", "2", "3", "-", "0", "6", "-", "0", "2">>).dt = 2 * 365
    /\ \E i \in DOMAIN report[1].test_results :
           /\ report[1].test_results[i].test =
                  <<"essential_fields", "date_of_birth", "reasonable">>
           /\ ~report[1].test_results[i].passed
           /\ report[1].test_results[i].severity = "error"

\* the whole days from the issue date to the expiry date of a metadata map
SpanDays(md) ==
    (ValidateDate(md.date_of_expiry.s).dt - ValidateDate(md.date_of_issue.s).dt) \div 2

\* the positions of the {prefix}.dates.name tests of caller t's report
DateTests(t, name) ==
    {i \in TestsOf(t, PrefixOf(given[t].document_type), "dates") :
        report[t].test_results[i].test[3] = name}

\* C21: in every report of a run on a recognized document type, when
\* date_of_issue and date_of_expiry are both dates of the strict grammar there
\* is exactly one dates.validity_period test; every such test passed iff the
\* span from issue to expiry is within 183..7305 days, and else failed with
\* severity warning.
C21_ValidityPeriod ==
    \A t \in Callers :
        (Ran(t) /\ KnownType(given[t])) =>
            LET tr == report[t].test_results
                md == given[t].metadata
                V == DateTests(t, "validity_period")
            IN  /\ (StrictlyParses(md.date_of_issue) /\ StrictlyParses(md.date_of_expiry))
                       => Cardinality(V) = 1
                /\ \A i \in V :
                       /\ tr[i].passed <=> (183 <= SpanDays(md) /\ SpanDays(md) <= 7305)
                       /\ tr[i].passed <=>
                              (1461 <= 8 * SpanDays(md) /\ 4 * SpanDays(md) <= 20 * 1461)
                       /\ ~tr[i].passed => tr[i].severity = "warning"

\* a passport valid for exactly 182 days: validity_period is a warning
C21_Witness ==
    /\ Ran(1)
    /\ given[1].document_type = "passport"
    /\ StrictlyParses(given[1].metadata.date_of_issue)
    /\ StrictlyParses(given[1].metadata.date_of_expiry)
    /\ SpanDays(given[1].metadata) = 182
    /\ \E i \in DateTests(1, "validity_period") :
           /\ ~report[1].test_results[i].passed
           /\ report[1].test_results[i].severity = "warning"

\* C22: in every report of a run on a recognized document type, when
\* date_of_expiry is a date of the strict grammar there is exactly one
\* dates.not_expired test; every such test passed iff the expiry date is after
\* the date the clock showed during the call, and else failed with severity
\* warning, so that a document expiring on that date is reported as expired.
C22_NotExpired ==
    \A t \in Callers :
        (Ran(t) /\ KnownType(given[t])) =>
            LET tr == report[t].test_results
                expiry == given[t].metadata.date_of_expiry
                N == DateTests(t, "not_expired")
            IN  /\ StrictlyParses(expiry) => Cardinality(N) = 1
                /\ \A i \in N :
                       \E n \in began[t]..now :
                           /\ tr[i].passed <=> ValidateDate(expiry.s).dt > DayStart(n)
                           /\ ~tr[i].passed => tr[i].severity = "warning"

\* a passport that expires on the day of the call, issue date absent: expired
C22_Witness ==
    /\ Ran(1)
    /\ given[1].document_type = "passport"
    /\ given[1].metadata.date_of_issue = Absent
    /\ StrictlyParses(given[1].metadata.date_of_expiry)
    /\ ValidateDate(given[1].metadata.date_of_expiry.s).dt = DayStart(began[1])
    /\ \E i \in DateTests(1, "not_expired") :
           /\ ~report[1].test_results[i].passed
           /\ report[1].test_results[i].severity = "warning"

\* the test id names a document date check
IsDateTest(d) == d.test[2] \in {"date_of_issue", "date_of_expiry", "dates"}

\* C23: in every report of a passport or drivers_license run whose
\* date_of_issue and date_of_expiry are both absent or empty, no test id names
\* date_of_issue, date_of_expiry or dates.
C23_NoDatesNoOutcome ==
    \A t \in Callers :
        (/\ Ran(t)
         /\ KnownType(given[t])
         /\ given[t].document_type \in {"passport", "drivers_license"}
         /\ TextOf(given[t].metadata.date_of_issue) = <<>>
         /\ TextOf(given[t].metadata.date_of_expiry) = <<>>) =>
            \A i \in DOMAIN report[t].test_results :
                ~IsDateTest(report[t].test_results[i])

\* a passport without document dates whose report has all_tests_passed = true
C23_Witness ==
    /\ Ran(1)
    /\ given[1].document_type = "passport"
    /\ given[1].metadata.date_of_issue = Absent
    /\ given[1].metadata.date_of_expiry = Absent
    /\ report[1].all_tests_passed
    /\ report[1].total_tests >= 8

\* C24: in every report of a drivers_license run there is exactly one
\* license.address test, address.present, passed iff the address has a value
\* whose trimmed length is greater than 5 and else failed with severity error;
\* in a passport or other_id run with no address there is no address test.
C24_LicenseAddress ==
    \A t \in Callers :
        (Ran(t) /\ KnownType(given[t])) =>
            LET tr == report[t].test_results
                address == given[t].essential_fields.address
                A == {i \in DOMAIN tr : tr[i].test[2] = "address"}
            IN  IF given[t].document_type = "drivers_license"
                THEN /\ Cardinality(A) = 1
                     /\ \A i \in A :
                            /\ tr[i].test = <<"license", "address", "present">>
                            /\ tr[i].passed <=> Len(Strip(TextOf(address))) > 5
                            /\ ~tr[i].passed => tr[i].severity = "error"
                ELSE address = Absent => A = {}

\* a license whose address has trimmed length exactly 5: address.present fails
C24_Witness ==
    /\ Ran(1)
    /\ given[1].document_type = "drivers_license"
    /\ given[1].essential_fields.address.k = "value"
    /\ Len(given[1].essential_fields.address.s) > 5
    /\ Len(Strip(given[1].essential_fields.address.s)) = 5
    /\ \E i \in DOMAIN report[1].test_results :
           /\ report[1].test_results[i].test = <<"license", "address", "present">>
           /\ ~report[1].test_results[i].passed
           /\ report[1].test_results[i].severity = "error"

\* C25: every report of a run has at least 3 tests: exactly one
\* full_name.present, exactly one of date_of_birth.present and
\* date_of_birth.format, and exactly one of sex.valid and sex.present; its
\* test_results list is not empty.
C25_AtLeastThreeTests ==
    \A t \in Callers :
        Ran(t) =>
            LET tr == report[t].test_results
            IN  /\ report[t].total_tests >= 3
                /\ tr # <<>>
                /\ Cardinality({i \in TestsOf(t, "essential_fields", "full_name") :
                                   tr[i].test[3] = "present"}) = 1
                /\ Cardinality({i \in TestsOf(t, "essential_fields", "date_of_birth") :
                                   tr[i].test[3] \in {"present", "format"}}) = 1
                /\ Cardinality({i \in TestsOf(t, "essential_fields", "sex") :
                                   tr[i].test[3] \in {"valid", "present"}}) = 1

\* a run on an input with no field at all: the report holds exactly 3 tests
C25_Witness ==
    /\ Ran(1)
    /\ given[1].essential_fields = EmptyEssential
    /\ report[1].total_tests = 3
    /\ report[1].failed = 3

\* C26: every outcome generated, and every test of a report, that passed has
\* severity error; one of severity warning did not pass.
C26_WarningMeansFailed ==
    \A t \in Callers :
        /\ \A i \in DOMAIN fresh[t] :
               /\ fresh[t][i].passed => fresh[t][i].severity = "error"
               /\ fresh[t][i].severity = "warning" => ~fresh[t][i].passed
        /\ Ran(t) =>
               \A i \in DOMAIN report[t].test_results :
                   /\ report[t].test_results[i].passed =>
                          report[t].test_results[i].severity = "error"
                   /\ report[t].test_results[i].severity = "warning" =>
                          ~report[t].test_results[i].passed

\* a passport report in which the recognized country passed with severity
\* error next to a failed warning
C26_Witness ==
    /\ Ran(1)
    /\ report[1].warnings >= 1
    /\ \E i \in DOMAIN report[1].test_results :
           /\ report[1].test_results[i].test = <<"passport", "country_of_issue", "valid">>
           /\ report[1].test_results[i].passed
           /\ report[1].test_results[i].severity = "error"

\* C27: in every report in which dates.expiry_after_issue failed,
\* dates.validity_period failed too, and the report counts at least one error
\* and one warning.
C27_InvertedDatesFailTwice ==
    \A t \in Callers :
        (/\ Ran(t)
         /\ KnownType(given[t])
         /\ \E i \in DateTests(t, "expiry_after_issue") :
                ~report[t].test_results[i].passed) =>
            /\ \E j \in DateTests(t, "validity_period") :
                   /\ ~report[t].test_results[j].passed
                   /\ report[t].test_results[j].severity = "warning"
            /\ report[t].errors >= 1
            /\ report[t].warnings >= 1

\* a run on equal issue and expiry dates: both tests failed
C27_Witness ==
    /\ Ran(1)
    /\ KnownType(given[1])
    /\ StrictlyParses(given[1].metadata.date_of_issue)
    /\ given[1].metadata.date_of_expiry = given[1].metadata.date_of_issue
    /\ \E i \in DateTests(1, "expiry_after_issue") : ~report[1].test_results[i].passed
    /\ \E j \in DateTests(1, "validity_period") : ~report[1].test_results[j].passed

\* the positions of the essential_fields.date_of_birth.name tests of a report
DobTests(t, name) ==
    {i \in TestsOf(t, "essential_fields", "date_of_birth") :
        report[t].test_results[i].test[3] = name}

\* C28: in every report in which date_of_birth.past failed,
\* date_of_birth.reasonable failed too, both with severity error, and the
\* report counts at least two errors.
C28_FutureDobFailsTwice ==
    \A t \in Callers :
        (Ran(t) /\ \E i \in DobTests(t, "past") : ~report[t].test_results[i].passed) =>
            /\ \A i \in DobTests(t, "past") :
                   ~report[t].test_results[i].passed =>
                       report[t].test_results[i].severity = "error"
            /\ \E j \in DobTests(t, "reasonable") :
                   /\ ~report[t].test_results[j].passed
                   /\ report[t].test_results[j].severity = "error"
            /\ report[t].errors >= 2

\* a run on a date of birth after the day of the call
C28_Witness ==
    /\ Ran(1)
    /\ StrictlyParses(given[1].essential_fields.date_of_birth)
    /\ ValidateDate(given[1].essential_fields.date_of_birth.s).dt > now
    /\ \E i \in DobTests(1, "past") : ~report[1].test_results[i].passed
    /\ \E j \in DobTests(1, "reasonable") : ~report[1].test_results[j].passed

\* C29: once a validate call has returned, the outcome buffer of the instance
\* holds exactly the outcomes of that call; after a skipped call it is empty.
C29_BufferIsLastCall ==
    \A t \in Callers :
        pc[t] = "done" =>
            /\ results = fresh[t]
            /\ Skipped(given[t]) => results = <<>>

\* a skipped call has returned on an instance that held the outcomes of a run
C29_Witness ==
    /\ pc[1] = "done"
    /\ Skipped(given[1])
    /\ reused[1]
    /\ report[1] = SkipReport
    /\ results = <<>>

====
